---- MODULE Spec2Model ----
(***************************************************************************)
(* Verification model of the learning-crdts-rust repository.               *)
(*                                                                         *)
(*  Part I   dotted version vectors: Dot, DotCtx, DotKernel                *)
(*           (sypytkowski-blog/src/delta_state/dot.rs)                      *)
(*  Part II  delta-state AWORSet and MVReg replicas                        *)
(*           (sypytkowski-blog/src/delta_state/{aworset,mvreg}.rs)          *)
(*  Part III the operation-based Replicator over the Counter CRDT          *)
(*           (sypytkowski-commutative/src/{lib,memdb,counter}.rs)           *)
(*                                                                         *)
(* Rust maps (BTreeMap) are TLA+ functions whose DOMAIN is the key set, so *)
(* that a missing key and a key bound to 0 stay different values, as they  *)
(* are under the derived structural equality.  Option<T> is a sequence of  *)
(* length 0 (None) or 1 (Some).                                            *)
(***************************************************************************)
EXTENDS Integers, Sequences, FiniteSets, TLC

VARIABLES
    ka, kb, kc,     \* three DotKernel inputs of the merge laws
    kres,           \* results of the last law evaluation
    sets,           \* AWORSet replicas: replica id -> AWORSet
    outbox,         \* delta handed out by each AWORSet replica's last split
    regs,           \* MVReg replicas: replica id -> MVReg
    regbox,         \* delta handed out by each MVReg replica's last split
    writes,         \* history of MVReg::set calls: dot -> value and context seen
    maps,           \* AWORMap replicas: replica id -> AWORMap
    mapbox,         \* delta handed out by each AWORMap replica's last split
    dops,           \* number of operations applied to the delta-state replicas
    state,          \* Replicator.state of every replicator
    store,          \* Replicator.store (InMemoryDb) of every replicator
    link,           \* the replicate_impl loop in progress, if any
    driver,         \* position of the program driving the replicators
    fault           \* the send that stopped at Store::save_events, if any

vars == <<ka, kb, kc, kres, sets, outbox, regs, regbox, writes, dops, maps, mapbox,
         state, store, link, driver, fault>>

kernelVars == <<ka, kb, kc, kres>>
deltaVars  == <<sets, outbox, regs, regbox, writes, dops>>
replVars   == <<state, store, link, driver, fault>>
mapVars    == <<maps, mapbox>>

-----------------------------------------------------------------------------
(* Generic helpers for maps and options                                    *)

EmptyMap == << >>

None == << >>

Some(x) == <<x>>

MapGet(m, k, default) == IF k \in DOMAIN m THEN m[k] ELSE default

MapPut(m, k, v) == [x \in (DOMAIN m) \cup {k} |-> IF x = k THEN v ELSE m[x]]

MapDel(m, k) == [x \in (DOMAIN m) \ {k} |-> m[x]]

Max(a, b) == IF a >= b THEN a ELSE b

-----------------------------------------------------------------------------
(* Part I: dot.rs                                                          *)

\* #[derive(PartialOrd, Ord)] on Dot(ReplicaId, u64): lexicographic order
Dot_lt(d, e) == d[1] < e[1] \/ (d[1] = e[1] /\ d[2] < e[2])

\* first element of a BTreeSet<Dot> / first key of a BTreeMap<Dot, V>
Dot_first(S) == CHOOSE d \in S : \A e \in S : d = e \/ Dot_lt(d, e)

DotCtx_default == [clock |-> EmptyMap, dot_cloud |-> {}]

DotKernel_default == [ctx |-> DotCtx_default, entries |-> EmptyMap]

\* DotCtx::add
DotCtx_add(ctx, dot) == [ctx EXCEPT !.dot_cloud = @ \cup {dot}]

\* DotCtx::contains
DotCtx_contains(ctx, dot) ==
    IF dot[1] \in DOMAIN ctx.clock /\ ctx.clock[dot[1]] >= dot[2]
    THEN TRUE
    ELSE dot \in ctx.dot_cloud

\* a next_dot that returns the dot of the current clock entry, 1 at least,
\* without advancing it
DotCtx_next_dot_same(ctx, replica) ==
    LET val == IF replica \in DOMAIN ctx.clock /\ ctx.clock[replica] >= 1
               THEN ctx.clock[replica] ELSE 1
    IN  << [ctx EXCEPT !.clock = MapPut(@, replica, val)], <<replica, val>> >>

\* DotCtx::next_dot: returns <<ctx', dot>>
DotCtx_next_dot(ctx, replica) ==
    LET val == IF replica \in DOMAIN ctx.clock THEN ctx.clock[replica] + 1 ELSE 1
    IN  << [ctx EXCEPT !.clock = MapPut(@, replica, val)], <<replica, val>> >>

\* a sweep that tests every cloud dot against the clock as it was before the
\* sweep, promoting at most one dot per replica
DotCtx_sweep_snapshot(clock, todo, kept) ==
    LET promoted == {d \in todo : d[2] = MapGet(clock, d[1], 0) + 1}
    IN  [clock |-> [k \in (DOMAIN clock) \cup {d[1] : d \in promoted} |->
                      IF \E d \in promoted : d[1] = k
                      THEN MapGet(clock, k, 0) + 1 ELSE clock[k]],
         dot_cloud |-> kept \cup {d \in todo : d[2] > MapGet(clock, d[1], 0) + 1}]

\* the drain_filter sweep of DotCtx::compact: the cloud is visited in
\* ascending Dot order while the clock is updated in place
RECURSIVE DotCtx_sweep(_, _, _)
DotCtx_sweep(clock, todo, kept) ==
    IF todo = {} THEN [clock |-> clock, dot_cloud |-> kept]
    ELSE LET d  == Dot_first(todo)
             n2 == MapGet(clock, d[1], 0)
         IN  IF d[2] = n2 + 1
             THEN DotCtx_sweep(MapPut(clock, d[1], d[2]), todo \ {d}, kept)
             ELSE IF d[2] <= n2
             THEN DotCtx_sweep(clock, todo \ {d}, kept)
             ELSE DotCtx_sweep(clock, todo \ {d}, kept \cup {d})

\* DotCtx::compact
DotCtx_compact(ctx) == DotCtx_sweep(ctx.clock, ctx.dot_cloud, {})

\* a merge whose clock keeps self's entry for a shared replica instead of
\* the maximum
DotCtx_merge_overwrite(self, other) ==
    LET clock == [k \in (DOMAIN self.clock) \cup (DOMAIN other.clock) |->
                    IF k \in DOMAIN self.clock THEN self.clock[k]
                    ELSE other.clock[k]]
    IN  DotCtx_compact([clock |-> clock,
                        dot_cloud |-> self.dot_cloud \cup other.dot_cloud])

\* DotCtx::merge
DotCtx_merge(self, other) ==
    LET clock == [k \in (DOMAIN self.clock) \cup (DOMAIN other.clock) |->
                    IF k \in DOMAIN self.clock /\ k \in DOMAIN other.clock
                    THEN Max(self.clock[k], other.clock[k])
                    ELSE IF k \in DOMAIN self.clock THEN self.clock[k]
                    ELSE other.clock[k]]
    IN  DotCtx_compact([clock |-> clock,
                        dot_cloud |-> self.dot_cloud \cup other.dot_cloud])

\* DotKernel::values, collected into a set as value() does
DotKernel_values(k) == {k.entries[d] : d \in DOMAIN k.entries}

\* a merge whose second loop forgets to ask whether `other` has seen the dot
DotKernel_merge_dropunseen(self, other) ==
    LET unseen  == {d \in DOMAIN other.entries :
                      ~(d \in DOMAIN self.entries \/ DotCtx_contains(self.ctx, d))}
        removed == {d \in DOMAIN self.entries : d \notin DOMAIN other.entries}
    IN  [ctx |-> DotCtx_merge(self.ctx, other.ctx),
         entries |-> [d \in ((DOMAIN self.entries) \cup unseen) \ removed |->
                        IF d \in DOMAIN self.entries THEN self.entries[d]
                        ELSE other.entries[d]]]

\* DotKernel::merge
DotKernel_merge(self, other) ==
    LET unseen  == {d \in DOMAIN other.entries :
                      ~(d \in DOMAIN self.entries \/ DotCtx_contains(self.ctx, d))}
        removed == {d \in DOMAIN self.entries :
                      DotCtx_contains(other.ctx, d) /\ d \notin DOMAIN other.entries}
    IN  [ctx |-> DotCtx_merge(self.ctx, other.ctx),
         entries |-> [d \in ((DOMAIN self.entries) \cup unseen) \ removed |->
                        IF d \in DOMAIN self.entries THEN self.entries[d]
                        ELSE other.entries[d]]]

\* an add that forgets to record the new dot in the context of the delta
DotKernel_add_nodeltactx(self, replica, value, delta) ==
    LET nd  == DotCtx_next_dot(self.ctx, replica)
        dot == nd[2]
    IN  << [ctx |-> nd[1], entries |-> MapPut(self.entries, dot, value)],
           [ctx |-> DotCtx_compact(delta.ctx),
            entries |-> MapPut(delta.entries, dot, value)] >>

\* DotKernel::add: returns <<self', delta'>>
DotKernel_add(self, replica, value, delta) ==
    LET nd  == DotCtx_next_dot(self.ctx, replica)
        dot == nd[2]
    IN  << [ctx |-> nd[1], entries |-> MapPut(self.entries, dot, value)],
           [ctx |-> DotCtx_compact(DotCtx_add(delta.ctx, dot)),
            entries |-> MapPut(delta.entries, dot, value)] >>

\* DotKernel::remove: returns <<self', delta'>>; `find` stops at the first
\* entry, in key order, whose value equals `value`
DotKernel_remove(self, value, delta) ==
    LET hits == {d \in DOMAIN self.entries : self.entries[d] = value}
    IN  IF hits = {} THEN <<self, delta>>
        ELSE LET dot == Dot_first(hits)
             IN  << [self EXCEPT !.entries = MapDel(@, dot)],
                    [delta EXCEPT !.ctx = DotCtx_add(@, dot)] >>

\* KeyVal's PartialEq::eq: the keys are compared, the values are not
KeyVal_eq(a, b) == a.key = b.key

\* DotKernel<KeyVal>::remove: `val == &value` is KeyVal's eq
DotKernel_remove_KeyVal(self, value, delta) ==
    LET hits == {d \in DOMAIN self.entries : KeyVal_eq(self.entries[d], value)}
    IN  IF hits = {} THEN <<self, delta>>
        ELSE LET dot == Dot_first(hits)
             IN  << [self EXCEPT !.entries = MapDel(@, dot)],
                    [delta EXCEPT !.ctx = DotCtx_add(@, dot)] >>

\* DotKernel::remove_all
DotKernel_remove_all(self) ==
    [ctx |-> DotCtx_compact([self.ctx EXCEPT
                                !.dot_cloud = @ \cup DOMAIN self.entries]),
     entries |-> EmptyMap]

\* the kernel invariant of the data model: every entry dot is in the context
DotKernel_wf(k) == \A d \in DOMAIN k.entries : DotCtx_contains(k.ctx, d)

-----------------------------------------------------------------------------
(* Inputs of the merge laws (test::dotkernel_strategy, test::patch_kernels) *)

KMaxSeq == 2

KReplicaIds == {1, 2}

\* dots the generated kernels are built from: replica 1 owns sequence
\* numbers 1..KMaxSeq, replica 2 a single dot
KDots == {d \in KReplicaIds \X (1 .. KMaxSeq) : d[1] = 1 \/ d[2] = 1}

\* patch_kernels leaves a dot bound to one value in all kernels under test
KValueOf(d) == IF d[1] = 1 THEN d[2] ELSE 1

\* dotkernel_strategy: any set of seen dots, compacted, and any subset of it
\* alive
KernelOf(seen, alive) ==
    [ctx |-> DotCtx_compact([clock |-> EmptyMap, dot_cloud |-> seen]),
     entries |-> [d \in alive |-> KValueOf(d)]]

Kernels == UNION {{KernelOf(seen, alive) : alive \in SUBSET seen} : seen \in SUBSET KDots}

\* no delta-state replica and no replicator has been constructed
NoDeltaReplicas == sets = EmptyMap /\ outbox = EmptyMap /\ regs = EmptyMap
                   /\ regbox = EmptyMap /\ writes = EmptyMap /\ dops = 0

\* no AWORMap has been constructed
NoMaps == maps = EmptyMap /\ mapbox = EmptyMap

NoReplicators == state = EmptyMap /\ store = EmptyMap /\ link = None
                 /\ driver = <<"idle", 0, 0, 0>> /\ fault = None

InitKernel ==
    /\ ka \in Kernels /\ kb \in Kernels /\ kc \in Kernels
    /\ kres = None
    /\ NoDeltaReplicas /\ NoMaps /\ NoReplicators

\* test::kernel::commutativity
KernelCommutativity ==
    /\ kres = None
    /\ kres' = Some([law |-> "commutativity",
                     lhs |-> DotKernel_merge(ka, kb),
                     rhs |-> DotKernel_merge(kb, ka)])
    /\ UNCHANGED <<ka, kb, kc, deltaVars, replVars, mapVars>>

\* test::kernel::associativity
KernelAssociativity ==
    /\ kres = None
    /\ kres' = Some([law |-> "associativity",
                     lhs |-> DotKernel_merge(DotKernel_merge(ka, kb), kc),
                     rhs |-> DotKernel_merge(ka, DotKernel_merge(kb, kc))])
    /\ UNCHANGED <<ka, kb, kc, deltaVars, replVars, mapVars>>

\* test::kernel::idempotency
KernelIdempotency ==
    /\ kres = None
    /\ kres' = Some([law |-> "idempotency",
                     lhs |-> DotKernel_merge(ka, ka),
                     rhs |-> ka])
    /\ UNCHANGED <<ka, kb, kc, deltaVars, replVars, mapVars>>

NextKernel == KernelCommutativity \/ KernelAssociativity \/ KernelIdempotency

SpecKernel == InitKernel /\ [][NextKernel]_vars

\* C3: DotKernel.merge is commutative: for kernels a, b that satisfy the
\* kernel invariant and agree on the value of every shared dot, a.merge(b)
\* and b.merge(a) have equal entries and equal compacted contexts.
C3_MergeCommutative ==
    (kres # None /\ kres[1].law = "commutativity"
        /\ DotKernel_wf(ka) /\ DotKernel_wf(kb))
    => kres[1].lhs = kres[1].rhs

\* C3 witness: a commutativity evaluation in which a deleted a dot that b
\* still holds and b saw a dot of the cloud that a has not seen
C3_Witness ==
    /\ kres # None /\ kres[1].law = "commutativity"
    /\ \E d \in DOMAIN kb.entries :
          DotCtx_contains(ka.ctx, d) /\ d \notin DOMAIN ka.entries
    /\ \E d \in kb.ctx.dot_cloud : ~DotCtx_contains(ka.ctx, d)
    /\ kres[1].lhs = kres[1].rhs

\* C4: DotKernel.merge is associative: for kernels a, b, c that satisfy the
\* kernel invariant and agree on shared dots, a.merge(b).merge(c) equals
\* a.merge(b.merge(c)) in entries and compacted context.
C4_MergeAssociative ==
    (kres # None /\ kres[1].law = "associativity"
        /\ DotKernel_wf(ka) /\ DotKernel_wf(kb) /\ DotKernel_wf(kc))
    => kres[1].lhs = kres[1].rhs

\* C4 witness: an associativity evaluation in which a holds a dot that b has
\* never seen and c has observed and deleted; the dot stays deleted
C4_Witness ==
    /\ kres # None /\ kres[1].law = "associativity"
    /\ \E d \in DOMAIN ka.entries :
          /\ ~DotCtx_contains(kb.ctx, d)
          /\ DotCtx_contains(kc.ctx, d) /\ d \notin DOMAIN kc.entries
          /\ d \notin DOMAIN kres[1].lhs.entries
          /\ d \notin DOMAIN kres[1].rhs.entries
    /\ kres[1].lhs = kres[1].rhs

-----------------------------------------------------------------------------
(* Part II: aworset.rs and mvreg.rs                                        *)

AWORSet_default == [kernel |-> DotKernel_default, delta |-> None]

\* Option::get_or_insert_default on the pending delta
Delta_or_default(delta) == IF delta = None THEN DotKernel_default ELSE delta[1]

\* AWORSet::add
AWORSet_add(self, replica, value) ==
    LET r == DotKernel_remove(self.kernel, value, Delta_or_default(self.delta))
        a == DotKernel_add(r[1], replica, value, r[2])
    IN  [kernel |-> a[1], delta |-> Some(a[2])]

\* AWORSet::remove
AWORSet_remove(self, value) ==
    LET r == DotKernel_remove(self.kernel, value, Delta_or_default(self.delta))
    IN  [kernel |-> r[1], delta |-> Some(r[2])]

\* the match on the two pending deltas in AWORSet::merge and MVReg::merge
Delta_merge(a, b) ==
    IF a # None /\ b # None THEN Some(DotKernel_merge(a[1], b[1]))
    ELSE IF a # None THEN a
    ELSE b

\* AWORSet::merge
AWORSet_merge(self, other) ==
    [kernel |-> DotKernel_merge(self.kernel, other.kernel),
     delta  |-> Delta_merge(self.delta, other.delta)]

\* AWORSet::merge_delta
AWORSet_merge_delta(self, delta) ==
    LET new_deltas == IF self.delta # None THEN DotKernel_merge(self.delta[1], delta)
                      ELSE delta
    IN  [kernel |-> DotKernel_merge(self.kernel, new_deltas),
         delta  |-> Some(new_deltas)]

\* AWORSet::split_mut: returns <<self', delta>>
AWORSet_split_mut(self) == << [self EXCEPT !.delta = None], self.delta >>

\* AWORSet::value
AWORSet_value(self) == DotKernel_values(self.kernel)

MVReg_default == [core |-> DotKernel_default, delta |-> None]

\* MVReg::value
MVReg_value(self) == DotKernel_values(self.core)

\* a set that keeps the earlier writes: remove_all is not called
MVReg_set_keepold(self, replica, value) ==
    LET a == DotKernel_add(self.core, replica, value, Delta_or_default(self.delta))
    IN  [core |-> a[1], delta |-> Some(a[2])]

\* MVReg::set
MVReg_set(self, replica, value) ==
    LET a == DotKernel_add(DotKernel_remove_all(self.core), replica, value,
                           Delta_or_default(self.delta))
    IN  [core |-> a[1], delta |-> Some(a[2])]

\* MVReg::merge
MVReg_merge(self, other) ==
    [core  |-> DotKernel_merge(self.core, other.core),
     delta |-> Delta_merge(self.delta, other.delta)]

\* MVReg::merge_delta
MVReg_merge_delta(self, delta) ==
    LET d == IF self.delta # None THEN DotKernel_merge(self.delta[1], delta)
             ELSE delta
    IN  [core |-> DotKernel_merge(self.core, d), delta |-> Some(d)]

\* MVReg::split: returns <<register without delta, delta>>
MVReg_split(self) == << [core |-> self.core, delta |-> None], self.delta >>

-----------------------------------------------------------------------------
(* Delta-state replicas: each replica id is used by one instance           *)

\* ReplicaGenerator::gen hands out 0, 1, ...
DReplicaIds == {0, 1}

DValues == {"x", "y"}

\* cap on the sequence numbers a replica allocates with next_dot
DMaxSeq == 2

\* cap on the number of operations applied to the replicas of one run
DMaxOps == 7

\* one more operation is applied
DStep == dops < DMaxOps /\ dops' = dops + 1

\* the clock entry next_dot would advance
Clock_of(kernel, replica) == MapGet(kernel.ctx.clock, replica, 0)

InitSets ==
    /\ sets = [i \in DReplicaIds |-> AWORSet_default]
    /\ outbox = [i \in DReplicaIds |-> None]
    /\ regs = EmptyMap /\ regbox = EmptyMap

InitRegs ==
    /\ regs = [i \in DReplicaIds |-> MVReg_default]
    /\ regbox = [i \in DReplicaIds |-> None]
    /\ sets = EmptyMap /\ outbox = EmptyMap

NoKernelLaws == ka = DotKernel_default /\ kb = DotKernel_default
                /\ kc = DotKernel_default /\ kres = None

InitDelta == (InitSets \/ InitRegs) /\ writes = EmptyMap /\ dops = 0 /\ NoKernelLaws /\ NoMaps /\ NoReplicators

SetAdd(i, v) ==
    /\ DStep
    /\ i \in DOMAIN sets
    /\ Clock_of(sets[i].kernel, i) < DMaxSeq
    /\ sets' = [sets EXCEPT ![i] = AWORSet_add(@, i, v)]
    /\ UNCHANGED <<outbox, regs, regbox, writes, kernelVars, replVars, mapVars>>

SetRemove(i, v) ==
    /\ DStep
    /\ i \in DOMAIN sets
    /\ sets' = [sets EXCEPT ![i] = AWORSet_remove(@, v)]
    /\ UNCHANGED <<outbox, regs, regbox, writes, kernelVars, replVars, mapVars>>

\* replica i adopts i.merge(j)
SetMerge(i, j) ==
    /\ DStep
    /\ i \in DOMAIN sets /\ j \in DOMAIN sets /\ i # j
    /\ sets' = [sets EXCEPT ![i] = AWORSet_merge(@, sets[j])]
    /\ UNCHANGED <<outbox, regs, regbox, writes, kernelVars, replVars, mapVars>>

\* replica i hands out its pending delta
SetSplit(i) ==
    /\ DStep
    /\ i \in DOMAIN sets
    /\ sets[i].delta # None
    /\ sets' = [sets EXCEPT ![i] = AWORSet_split_mut(@)[1]]
    /\ outbox' = [outbox EXCEPT ![i] = AWORSet_split_mut(sets[i])[2]]
    /\ UNCHANGED <<regs, regbox, writes, kernelVars, replVars, mapVars>>

\* replica i merges the delta replica j handed out last
SetMergeDelta(i, j) ==
    /\ DStep
    /\ i \in DOMAIN sets /\ j \in DOMAIN sets /\ i # j
    /\ outbox[j] # None
    /\ sets' = [sets EXCEPT ![i] = AWORSet_merge_delta(@, outbox[j][1])]
    /\ UNCHANGED <<outbox, regs, regbox, writes, kernelVars, replVars, mapVars>>

RegSet(i, v) ==
    /\ DStep
    /\ i \in DOMAIN regs
    /\ Clock_of(regs[i].core, i) < DMaxSeq
    /\ regs' = [regs EXCEPT ![i] = MVReg_set(@, i, v)]
    /\ writes' = MapPut(writes, <<i, Clock_of(regs[i].core, i) + 1>>,
                        [value |-> v, seen |-> regs[i].core.ctx])
    /\ UNCHANGED <<regbox, sets, outbox, kernelVars, replVars, mapVars>>

RegMerge(i, j) ==
    /\ DStep
    /\ i \in DOMAIN regs /\ j \in DOMAIN regs /\ i # j
    /\ regs' = [regs EXCEPT ![i] = MVReg_merge(@, regs[j])]
    /\ UNCHANGED <<regbox, writes, sets, outbox, kernelVars, replVars, mapVars>>

RegSplit(i) ==
    /\ DStep
    /\ i \in DOMAIN regs
    /\ regs[i].delta # None
    /\ regs' = [regs EXCEPT ![i] = MVReg_split(@)[1]]
    /\ regbox' = [regbox EXCEPT ![i] = MVReg_split(regs[i])[2]]
    /\ UNCHANGED <<writes, sets, outbox, kernelVars, replVars, mapVars>>

RegMergeDelta(i, j) ==
    /\ DStep
    /\ i \in DOMAIN regs /\ j \in DOMAIN regs /\ i # j
    /\ regbox[j] # None
    /\ regs' = [regs EXCEPT ![i] = MVReg_merge_delta(@, regbox[j][1])]
    /\ UNCHANGED <<regbox, writes, sets, outbox, kernelVars, replVars, mapVars>>

NextDelta ==
    \/ \E i \in DReplicaIds, v \in DValues : SetAdd(i, v)
    \/ \E i \in DReplicaIds, v \in DValues : SetRemove(i, v)
    \/ \E i \in DReplicaIds, j \in DReplicaIds : SetMerge(i, j)
    \/ \E i \in DReplicaIds : SetSplit(i)
    \/ \E i \in DReplicaIds, j \in DReplicaIds : SetMergeDelta(i, j)
    \/ \E i \in DReplicaIds, v \in DValues : RegSet(i, v)
    \/ \E i \in DReplicaIds, j \in DReplicaIds : RegMerge(i, j)
    \/ \E i \in DReplicaIds : RegSplit(i)
    \/ \E i \in DReplicaIds, j \in DReplicaIds : RegMergeDelta(i, j)

SpecDelta == InitDelta /\ [][NextDelta]_vars

\* C5: AWORSet.merge is idempotent on every reachable set, pending delta
\* included: s.merge(s) equals s structurally.
C5_MergeIdempotent ==
    \A i \in DOMAIN sets : AWORSet_merge(sets[i], sets[i]) = sets[i]

\* C6: in every reachable AWORSet and MVReg replica, every dot that is a key
\* of a kernel's entries is contained in that kernel's context, for the main
\* kernel and for the pending delta kernel.
C6_KernelInvariant ==
    /\ \A i \in DOMAIN sets :
          /\ DotKernel_wf(sets[i].kernel)
          /\ sets[i].delta # None => DotKernel_wf(sets[i].delta[1])
    /\ \A i \in DOMAIN regs :
          /\ DotKernel_wf(regs[i].core)
          /\ regs[i].delta # None => DotKernel_wf(regs[i].delta[1])

\* C6 witness: a set replica that holds a peer's dot, has deleted a dot it
\* observed and carries a pending delta with entries, all within the contexts
C6_Witness ==
    \E i \in DOMAIN sets :
        /\ \E d \in DOMAIN sets[i].kernel.entries : d[1] # i
        /\ \E d \in DReplicaIds \X (1 .. DMaxSeq) :
              DotCtx_contains(sets[i].kernel.ctx, d)
              /\ d \notin DOMAIN sets[i].kernel.entries
        /\ sets[i].delta # None
        /\ DOMAIN sets[i].delta[1].entries # {}
        /\ DotKernel_wf(sets[i].kernel)
        /\ DotKernel_wf(sets[i].delta[1])

\* C7: add-wins: whenever replicas a and b hold v under the same dot, and a
\* then executes add(a, v) while b executes remove(v) without seeing each
\* other, v is in value() of a.merge(b) and of b.merge(a).
C7_AddWins ==
    \A a \in DOMAIN sets : \A b \in (DOMAIN sets) \ {a} : \A v \in DValues :
        (\E d \in (DOMAIN sets[a].kernel.entries) \cap (DOMAIN sets[b].kernel.entries) :
            sets[a].kernel.entries[d] = v /\ sets[b].kernel.entries[d] = v)
        => LET a2 == AWORSet_add(sets[a], a, v)
               b2 == AWORSet_remove(sets[b], v)
           IN  /\ v \in AWORSet_value(AWORSet_merge(a2, b2))
               /\ v \in AWORSet_value(AWORSet_merge(b2, a2))

\* C7 witness: replica 1 held "x" under dot (0,1), handed out its delta
\* and removed "x" (its pending delta is that one removal); replica 0, which
\* never saw the removal, re-added "x" under dot (0,2) and handed out both
\* adds; after merging replica 0 replica 1 holds "x" again
C7_Witness ==
    /\ sets # EmptyMap
    /\ sets[1].delta = Some([ctx |-> [clock |-> EmptyMap, dot_cloud |-> {<<0, 1>>}],
                             entries |-> EmptyMap])
    /\ sets[1].kernel.entries = (<<0, 2>> :> "x")
    /\ sets[0].kernel.entries = (<<0, 2>> :> "x")
    /\ sets[0].delta = None
    /\ outbox[0] # None
    /\ outbox[0][1].entries = (<<0, 1>> :> "x" @@ <<0, 2>> :> "x")
    /\ outbox[1] = Some([ctx |-> [clock |-> (0 :> 1), dot_cloud |-> {}],
                         entries |-> (<<0, 1>> :> "x")])
    /\ "x" \in AWORSet_value(sets[1])

\* C8: after s.remove(v) on any reachable set no kernel entry equals v, and
\* the dot of every dropped entry is contained in the pending delta's context.
C8_RemoveRemoves ==
    \A i \in DOMAIN sets : \A v \in DValues :
        LET s2 == AWORSet_remove(sets[i], v)
        IN  /\ v \notin AWORSet_value(s2)
            /\ \A d \in (DOMAIN sets[i].kernel.entries) \ (DOMAIN s2.kernel.entries) :
                  DotCtx_contains(s2.delta[1].ctx, d)

\* C9: after s.add(r, v) on any reachable set exactly one kernel entry has
\* value v, and its dot is the dot (r, clock[r]) that next_dot allocated.
C9_AddSingleWitness ==
    \A i \in DOMAIN sets : \A v \in DValues :
        LET s2 == AWORSet_add(sets[i], i, v)
        IN  {d \in DOMAIN s2.kernel.entries : s2.kernel.entries[d] = v}
              = {<<i, Clock_of(sets[i].kernel, i) + 1>>}

-----------------------------------------------------------------------------
(* Delta shipping: replica 0 works and ships every delta, replica 1 starts  *)
(* empty and only merges the shipped deltas, in order                       *)

InitShip == InitSets /\ writes = EmptyMap /\ dops = 0 /\ NoKernelLaws /\ NoMaps /\ NoReplicators

\* replica 0 hands out its pending delta, which is queued for replica 1
ShipSplit ==
    /\ DStep
    /\ sets[0].delta # None
    /\ sets' = [sets EXCEPT ![0] = AWORSet_split_mut(@)[1]]
    /\ outbox' = [outbox EXCEPT ![0] = Append(@, AWORSet_split_mut(sets[0])[2][1])]
    /\ UNCHANGED <<regs, regbox, writes, kernelVars, replVars, mapVars>>

\* replica 1 merges the oldest undelivered delta
ShipDeliver ==
    /\ DStep
    /\ outbox[0] # << >>
    /\ sets' = [sets EXCEPT ![1] = AWORSet_merge_delta(@, Head(outbox[0]))]
    /\ outbox' = [outbox EXCEPT ![0] = Tail(@)]
    /\ UNCHANGED <<regs, regbox, writes, kernelVars, replVars, mapVars>>

NextShip ==
    \/ \E v \in DValues : SetAdd(0, v)
    \/ \E v \in DValues : SetRemove(0, v)
    \/ ShipSplit
    \/ ShipDeliver

SpecShip == InitShip /\ [][NextShip]_vars

\* C10: once replica 1 has merged, in order, every delta replica 0 handed
\* out, and replica 0 has no pending delta, replica 1's kernel equals
\* replica 0's kernel and so do their values.
C10_DeltaShipping ==
    (dops > 0 /\ outbox[0] = << >> /\ sets[0].delta = None)
    => /\ sets[1].kernel = sets[0].kernel
       /\ AWORSet_value(sets[1]) = AWORSet_value(sets[0])

\* C11: after MVReg.set(replica, v) the pending delta's context contains the
\* dot of every entry the set removed and the new dot, and a peer that held
\* the earlier writes and merges that delta ends with value() = {v} and a
\* core equal to the sender's core.
C11_SetShipsTombstones ==
    \A i \in DOMAIN regs : \A v \in DValues :
        LET s      == MVReg_set(regs[i], i, v)
            newdot == <<i, Clock_of(regs[i].core, i) + 1>>
        IN  /\ \A d \in (DOMAIN regs[i].core.entries) \cup {newdot} :
                  DotCtx_contains(s.delta[1].ctx, d)
            /\ \A j \in DOMAIN regs :
                  (j # i /\ regs[j].core = regs[i].core)
                  => LET p == MVReg_merge_delta(regs[j], s.delta[1])
                     IN  MVReg_value(p) = {v} /\ p.core = s.core

-----------------------------------------------------------------------------
(* MVReg replicas that exchange full states only                           *)

InitRegMerge == InitRegs /\ writes = EmptyMap /\ dops = 0 /\ NoKernelLaws /\ NoMaps /\ NoReplicators

NextRegMerge ==
    \/ \E i \in DReplicaIds, v \in DValues : RegSet(i, v)
    \/ \E i \in DReplicaIds, j \in DReplicaIds : RegMerge(i, j)

SpecRegMerge == InitRegMerge /\ [][NextRegMerge]_vars

\* the set calls register r has observed and that no set call it has observed
\* overwrote: a set overwrites the writes its replica had seen when it ran
LiveWrites(r) ==
    {d \in DOMAIN writes :
        /\ DotCtx_contains(r.core.ctx, d)
        /\ ~\E e \in DOMAIN writes :
              /\ DotCtx_contains(r.core.ctx, e)
              /\ DotCtx_contains(writes[e].seen, d)}

\* C12: after full-state merges, value() of every replica is exactly the set
\* of values whose set has not been observed and overwritten by a later set:
\* concurrent sets both survive, an overwritten write is gone from every
\* replica that merged the overwriting set.
C12_MergeSemantics ==
    \A i \in DOMAIN regs :
        /\ DOMAIN regs[i].core.entries = LiveWrites(regs[i])
        /\ \A d \in DOMAIN regs[i].core.entries : regs[i].core.entries[d] = writes[d].value
        /\ MVReg_value(regs[i]) = {writes[d].value : d \in LiveWrites(regs[i])}

\* C12 witness: a replica holds two concurrent writes with different values
\* after a merge, and has observed a write that one of them overwrote
C12_Witness ==
    \E i \in DOMAIN regs :
        /\ MVReg_value(regs[i]) = DValues
        /\ \E d \in DOMAIN regs[i].core.entries : d[1] # i
        /\ \E d \in DOMAIN writes :
              /\ DotCtx_contains(regs[i].core.ctx, d)
              /\ d \notin DOMAIN regs[i].core.entries

-----------------------------------------------------------------------------
(* AWORMap: an AWORSet of KeyVal pairs (delta_state/awormap.rs)            *)

KeyVal(k, v) == [key |-> k, val |-> v]

\* V::default() of the String values
Default_val == ""

\* last dot of a non-empty set in the derived order of Dot
Dot_last(S) == CHOOSE d \in S : \A e \in S : e = d \/ Dot_lt(e, d)

\* AWORSet<KeyVal>::remove
AWORSet_remove_KeyVal(self, value) ==
    LET r == DotKernel_remove_KeyVal(self.kernel, value, Delta_or_default(self.delta))
    IN  [kernel |-> r[1], delta |-> Some(r[2])]

\* AWORSet<KeyVal>::add
AWORSet_add_KeyVal(self, replica, value) ==
    LET r == DotKernel_remove_KeyVal(self.kernel, value, Delta_or_default(self.delta))
        a == DotKernel_add(r[1], replica, value, r[2])
    IN  [kernel |-> a[1], delta |-> Some(a[2])]

AWORMap_default == [keys |-> AWORSet_default]

\* AWORMap::values / values_owned: the entries, in dot order, are collected
\* into a HashMap, so the entry under the last dot of a key is the one kept
AWORMap_values(self) ==
    LET e == self.keys.kernel.entries
    IN  [k \in {e[d].key : d \in DOMAIN e} |->
            e[Dot_last({d \in DOMAIN e : e[d].key = k})].val]

\* AWORMap::insert
AWORMap_insert(self, replica, key, value) ==
    [keys |-> AWORSet_add_KeyVal(self.keys, replica, KeyVal(key, value))]

\* AWORMap::remove
AWORMap_remove(self, replica, key) ==
    [keys |-> AWORSet_remove_KeyVal(self.keys, KeyVal(key, Default_val))]

\* AWORMap::merge_delta
AWORMap_merge_delta(self, delta) == [keys |-> AWORSet_merge_delta(self.keys, delta)]

\* AWORMap::merge
AWORMap_merge(self, other) == [keys |-> AWORSet_merge(self.keys, other.keys)]

\* AWORMap::split_mut: returns <<self', delta>>
AWORMap_split_mut(self) ==
    << [keys |-> AWORSet_split_mut(self.keys)[1]], AWORSet_split_mut(self.keys)[2] >>

MReplicaIds == {0, 1, 2}

MKeys == {"k"}

MValues == {"v1", "v2"}

\* cap on the sequence numbers a map replica allocates
MMaxSeq == 2

\* cap on the number of operations applied to the map replicas of one run
MMaxOps == 5

MStep == dops < MMaxOps /\ dops' = dops + 1

InitMaps ==
    /\ maps = [i \in MReplicaIds |-> AWORMap_default]
    /\ mapbox = [i \in MReplicaIds |-> None]
    /\ NoDeltaReplicas /\ NoKernelLaws /\ NoReplicators

MapInsert(i, k, v) ==
    /\ MStep
    /\ Clock_of(maps[i].keys.kernel, i) < MMaxSeq
    /\ maps' = [maps EXCEPT ![i] = AWORMap_insert(@, i, k, v)]
    /\ UNCHANGED <<mapbox, sets, outbox, regs, regbox, writes, kernelVars, replVars>>

MapRemove(i, k) ==
    /\ MStep
    /\ maps' = [maps EXCEPT ![i] = AWORMap_remove(@, i, k)]
    /\ UNCHANGED <<mapbox, sets, outbox, regs, regbox, writes, kernelVars, replVars>>

\* replica i adopts i.merge(j)
MapMerge(i, j) ==
    /\ MStep
    /\ i # j
    /\ maps' = [maps EXCEPT ![i] = AWORMap_merge(@, maps[j])]
    /\ UNCHANGED <<mapbox, sets, outbox, regs, regbox, writes, kernelVars, replVars>>

\* replica i hands out its pending delta
MapSplit(i) ==
    /\ MStep
    /\ maps[i].keys.delta # None
    /\ maps' = [maps EXCEPT ![i] = AWORMap_split_mut(@)[1]]
    /\ mapbox' = [mapbox EXCEPT ![i] = AWORMap_split_mut(maps[i])[2]]
    /\ UNCHANGED <<sets, outbox, regs, regbox, writes, kernelVars, replVars>>

\* replica i merges the delta replica j handed out last
MapMergeDelta(i, j) ==
    /\ MStep
    /\ i # j
    /\ mapbox[j] # None
    /\ maps' = [maps EXCEPT ![i] = AWORMap_merge_delta(@, mapbox[j][1])]
    /\ UNCHANGED <<mapbox, sets, outbox, regs, regbox, writes, kernelVars, replVars>>

NextMaps ==
    \/ \E i \in MReplicaIds, k \in MKeys, v \in MValues : MapInsert(i, k, v)
    \/ \E i \in MReplicaIds, k \in MKeys : MapRemove(i, k)
    \/ \E i \in MReplicaIds, j \in MReplicaIds : MapMerge(i, j)
    \/ \E i \in MReplicaIds : MapSplit(i)
    \/ \E i \in MReplicaIds, j \in MReplicaIds : MapMergeDelta(i, j)

SpecMaps == InitMaps /\ [][NextMaps]_vars

\* values() holds key k and maps it to v
MapsTo(m, k, v) == k \in DOMAIN AWORMap_values(m) /\ AWORMap_values(m)[k] = v

\* C13: when A.insert(r1, k, v1) and B.insert(r2, k, v2) run concurrently
\* with r1 < r2 and the replicas then exchange state, by full merge or by
\* deltas, values() of both replicas maps k to v2.
C13_ConcurrentPut ==
    \A r1 \in DOMAIN maps, r2 \in DOMAIN maps, k \in MKeys, v1 \in MValues, v2 \in MValues :
        r1 < r2 =>
        LET a  == AWORMap_insert(maps[r1], r1, k, v1)
            b  == AWORMap_insert(maps[r2], r2, k, v2)
            sa == AWORMap_split_mut(a)
            sb == AWORMap_split_mut(b)
        IN  /\ MapsTo(AWORMap_merge(a, b), k, v2)
            /\ MapsTo(AWORMap_merge(b, a), k, v2)
            /\ MapsTo(AWORMap_merge_delta(sa[1], sb[2][1]), k, v2)
            /\ MapsTo(AWORMap_merge_delta(sb[1], sa[2][1]), k, v2)

\* C14: on any reachable AWORMap replica, after insert(replica, k, v) the map
\* returned by values() maps k to v, and after remove(replica, k) the key k
\* is absent from values().
C14_ReadsLatest ==
    \A i \in DOMAIN maps, k \in MKeys :
        /\ \A v \in MValues : MapsTo(AWORMap_insert(maps[i], i, k, v), k, v)
        /\ k \notin DOMAIN AWORMap_values(AWORMap_remove(maps[i], i, k))

-----------------------------------------------------------------------------
(* Part III: sypytkowski-commutative: VTime, Event, Counter, InMemoryDb,    *)
(* Replicator                                                              *)

\* ascending sequence of the elements of a finite set of numbers
\* (iteration order of BTreeMap keys)
RECURSIVE Ascending(_)
Ascending(S) ==
    IF S = {} THEN << >>
    ELSE LET m == CHOOSE x \in S : \A y \in S : x <= y
         IN  <<m>> \o Ascending(S \ {m})

\* a merge that takes the other clock's entry wherever it has one
VTime_merge_overwrite(self, other) ==
    [k \in (DOMAIN self) \cup (DOMAIN other) |->
        IF k \in DOMAIN other THEN other[k] ELSE self[k]]

\* VTime::merge
VTime_merge(self, other) ==
    [k \in (DOMAIN self) \cup (DOMAIN other) |->
        IF k \in DOMAIN self /\ k \in DOMAIN other THEN Max(self[k], other[k])
        ELSE IF k \in DOMAIN self THEN self[k]
        ELSE other[k]]

\* an increment that leaves the clock as it is
VTime_increment_noop(self, replica) == self

\* VTime::increment
VTime_increment(self, replica) == MapPut(self, replica, MapGet(self, replica, 0) + 1)

\* the fold of VTime::partial_ord_impl over a.keys().chain(b.keys());
\* "None" is the absent Ordering (concurrent)
RECURSIVE VTime_fold(_, _, _, _)
VTime_fold(a, b, keys, prev) ==
    IF keys = << >> THEN prev
    ELSE LET va == MapGet(a, Head(keys), 0)
             vb == MapGet(b, Head(keys), 0)
             next == IF prev = "Equal" /\ va > vb THEN "Greater"
                     ELSE IF prev = "Equal" /\ va < vb THEN "Less"
                     ELSE IF prev = "Less" /\ va > vb THEN "None"
                     ELSE IF prev = "Greater" /\ va < vb THEN "None"
                     ELSE prev
         IN  VTime_fold(a, b, Tail(keys), next)

\* a comparison that visits the keys of a only
VTime_partial_cmp_akeys(a, b) == VTime_fold(a, b, Ascending(DOMAIN a), "Equal")

\* VTime::partial_cmp
VTime_partial_cmp(a, b) ==
    VTime_fold(a, b, Ascending(DOMAIN a) \o Ascending(DOMAIN b), "Equal")

\* i64::MAX and i64::MIN, scaled to the integer range of the model
I64_MAX == 127

I64_MIN == -I64_MAX - 1

\* i64::saturating_add
saturating_add(a, b) ==
    IF a + b > I64_MAX THEN I64_MAX
    ELSE IF a + b < I64_MIN THEN I64_MIN
    ELSE a + b

Counter_default == [val |-> 0]

\* Counter::query
Counter_query(self) == self.val

\* Counter::prepare
Counter_prepare(self, op) == op

\* Counter::effect
Counter_effect(self, event) == [val |-> saturating_add(self.val, event.data)]

\* LWWRegister::new; `panicked` records that effect has reached its
\* Equal | Greater arm, which panics under debug_assertions
LWWRegister_new(id) == [id |-> id, time |-> EmptyMap, value |-> None, panicked |-> FALSE]

\* LWWRegister::query
LWWRegister_query(self) == self.value

\* LWWRegister::prepare
LWWRegister_prepare(self, op) == op

\* LWWRegister::effect
LWWRegister_effect(self, event) ==
    LET ord == VTime_partial_cmp(self.time, event.version)
    IN  CASE ord = "Less" -> [self EXCEPT !.time = event.version, !.value = event.data]
          [] ord = "None" -> IF self.id >= event.origin
                             THEN [self EXCEPT !.time = event.version, !.value = event.data]
                             ELSE self
          [] OTHER -> [self EXCEPT !.panicked = TRUE]

\* ORSet::new; values is the HashSet of (V, ClockWrapper) pairs
ORSet_new == [kind |-> "ORSet", values |-> {}]

\* ORSet::query
ORSet_query(self) == {e[1] : e \in self.values}

\* a prepare whose Remove lists the clock of every element of the set
ORSet_prepare_allclocks(self, op) ==
    IF op.type = "Add" THEN [type |-> "Added", val |-> op.val]
    ELSE [type |-> "Removed", removed |-> {e[2] : e \in self.values}]

\* ORSet::prepare
ORSet_prepare(self, op) ==
    IF op.type = "Add" THEN [type |-> "Added", val |-> op.val]
    ELSE [type |-> "Removed",
          removed |-> {e[2] : e \in {x \in self.values : x[1] = op.val}}]

\* ORSet::effect; the drain_filter is run to its end when it is dropped
ORSet_effect(self, event) ==
    IF event.data.type = "Added"
    THEN [self EXCEPT !.values = @ \cup {<<event.data.val, event.version>>}]
    ELSE [self EXCEPT !.values = {e \in @ : e[2] \notin event.data.removed}]

\* MVRegister::new; values is the Vec of (VTime, Option<V>) pairs
MVRegister_new == [kind |-> "MVRegister", values |-> << >>]

\* MVRegister::query: the BTreeSet of the values that are Some
MVRegister_query(self) ==
    {self.values[i][2][1] : i \in {j \in DOMAIN self.values : self.values[j][2] # None}}

\* MVRegister::prepare
MVRegister_prepare(self, op) == op

\* an effect that keeps every stored write
MVRegister_effect_keepall(self, event) ==
    [self EXCEPT !.values = <<<<event.version, event.data>>>> \o @]

\* MVRegister::effect
MVRegister_effect(self, event) ==
    [self EXCEPT !.values =
        <<<<event.version, event.data>>>>
        \o SelectSeq(@, LAMBDA w : VTime_partial_cmp(w[1], event.version) = "None")]

\* LSeq::new; a Vertex is <<VPtr, value>>, a VPtr [sequence, id]
LSeq_new(id) == [kind |-> "LSeq", values |-> << >>, id |-> id]

\* LSeq::query
LSeq_query(self) == [i \in DOMAIN self.values |-> self.values[i][2]]

\* VPtr::compare: sequences of the same length are not looked at, the ids
\* decide; otherwise Vec<u8>::cmp, the lexicographic order
VPtr_compare(a, b) ==
    IF Len(a.sequence) = Len(b.sequence)
    THEN (IF a.id < b.id THEN "Less" ELSE IF a.id > b.id THEN "Greater" ELSE "Equal")
    ELSE LET n     == IF Len(a.sequence) < Len(b.sequence)
                      THEN Len(a.sequence) ELSE Len(b.sequence)
             diffs == {i \in 1 .. n : a.sequence[i] # b.sequence[i]}
             first == CHOOSE i \in diffs : \A j \in diffs : i <= j
         IN  IF diffs # {}
             THEN (IF a.sequence[first] < b.sequence[first] THEN "Less" ELSE "Greater")
             ELSE IF Len(a.sequence) < Len(b.sequence) THEN "Less" ELSE "Greater"

\* VPtr::generate_seq, from position i on (i counts from 1 here)
RECURSIVE VPtr_generate_seq(_, _, _, _)
VPtr_generate_seq(acc, lo, hi, i) ==
    LET min == IF i <= Len(lo) THEN lo[i] ELSE 0
        max == IF i <= Len(hi) THEN hi[i] ELSE 255
    IN  IF min + 1 < max THEN Append(acc, min + 1)
        ELSE VPtr_generate_seq(Append(acc, min), lo, hi, i + 1)

\* LSeq::prepare
LSeq_prepare(self, op) ==
    IF op.type = "Insert"
    THEN LET lo == IF op.i = 0 THEN << >> ELSE self.values[op.i][1].sequence
             hi == IF op.i = Len(self.values) THEN << >>
                   ELSE self.values[op.i + 1][1].sequence
         IN  [type |-> "Inserted",
              ptr |-> [sequence |-> VPtr_generate_seq(<< >>, lo, hi, 1), id |-> self.id],
              val |-> op.val]
    ELSE [type |-> "Removed", ptr |-> self.values[op.i + 1][1]]

\* slice::binary_search_by over the vertices with VPtr::compare(vptr, ptr):
\* <<"Ok" or "Err", index>>, the index counting from 0
RECURSIVE LSeq_binary_search(_, _, _, _)
LSeq_binary_search(values, ptr, left, right) ==
    IF left >= right THEN <<"Err", left>>
    ELSE LET mid == left + ((right - left) \div 2)
             cmp == VPtr_compare(values[mid + 1][1], ptr)
         IN  IF cmp = "Less" THEN LSeq_binary_search(values, ptr, mid + 1, right)
             ELSE IF cmp = "Greater" THEN LSeq_binary_search(values, ptr, left, mid)
             ELSE <<"Ok", mid>>

\* LSeq::effect
LSeq_effect(self, event) ==
    LET found == LSeq_binary_search(self.values, event.data.ptr, 0, Len(self.values))
        idx   == found[2]
    IN  IF event.data.type = "Inserted"
        THEN [self EXCEPT !.values =
                 SubSeq(@, 1, idx) \o <<<<event.data.ptr, event.data.val>>>>
                 \o SubSeq(@, idx + 1, Len(@))]
        ELSE IF found[1] = "Ok"
        THEN [self EXCEPT !.values = SubSeq(@, 1, idx) \o SubSeq(@, idx + 2, Len(@))]
        ELSE self

\* Rga::new; a Vertex is <<VPtr, Option<V>>>, a VPtr <<seq, replica id>>; the
\* root vertex carries the id u64::MAX, written as the largest integer here;
\* `panicked` records the panic! of index_of_vptr
Rga_new(replica_id) ==
    [kind |-> "Rga", values |-> << <<<<0, 2147483647>>, None>> >>,
     sequencer |-> <<0, replica_id>>, panicked |-> FALSE]

\* Rga::shift with the derived PartialOrd of VPtr (seq first, then id);
\* offsets count from 0
RECURSIVE Rga_shift(_, _, _)
Rga_shift(self, offset, ptr) ==
    IF offset >= Len(self.values) THEN offset
    ELSE LET successor == self.values[offset + 1][1]
         IN  IF successor[1] < ptr[1] \/ (successor[1] = ptr[1] /\ successor[2] < ptr[2])
             THEN offset
             ELSE Rga_shift(self, offset + 1, ptr)

\* Rga::index_of_vptr: the first vertex with that pointer, -1 for the panic!
Rga_index_of_vptr(self, ptr) ==
    LET hits == {i \in DOMAIN self.values : self.values[i][1] = ptr}
    IN  IF hits = {} THEN -1
        ELSE (CHOOSE i \in hits : \A j \in hits : i <= j) - 1

\* Rga::apply_inserted
Rga_apply_inserted(self, predecessor, ptr, value) ==
    LET predecessor_idx == Rga_index_of_vptr(self, predecessor)
        insert_idx      == Rga_shift(self, predecessor_idx + 1, ptr)
        seq             == self.sequencer[1] + 1
    IN  IF predecessor_idx < 0 THEN [self EXCEPT !.panicked = TRUE]
        ELSE [self EXCEPT
                !.values = SubSeq(@, 1, insert_idx) \o << <<ptr, Some(value)>> >>
                           \o SubSeq(@, insert_idx + 1, Len(@)),
                !.sequencer = <<IF seq >= ptr[1] THEN seq ELSE ptr[1], @[2]>>]

\* Rga::apply_removed
Rga_apply_removed(self, pos) ==
    LET index == Rga_index_of_vptr(self, pos)
    IN  IF index < 0 THEN [self EXCEPT !.panicked = TRUE]
        ELSE [self EXCEPT !.values[index + 1][2] = None]

\* Rga::index_including_tombstones: the loop from the vertex at `offset` on
RECURSIVE Rga_index_including_tombstones(_, _, _)
Rga_index_including_tombstones(self, i, offset) ==
    IF offset >= Len(self.values) THEN offset + i
    ELSE IF i = 0 THEN offset
    ELSE Rga_index_including_tombstones(
             self, IF self.values[offset + 1][2] # None THEN i - 1 ELSE i, offset + 1)

\* Rga::query
Rga_query(self) ==
    LET live == SelectSeq(self.values, LAMBDA v : v[2] # None)
    IN  [i \in DOMAIN live |-> live[i][2][1]]

\* Rga::prepare
Rga_prepare(self, op) ==
    LET index == Rga_index_including_tombstones(self, op.i, 1)
    IN  IF op.type = "Insert"
        THEN [type |-> "Inserted", predecessor |-> self.values[index][1],
              ptr |-> <<self.sequencer[1] + 1, self.sequencer[2]>>, val |-> op.val]
        ELSE [type |-> "Removed", pos |-> self.values[index + 1][1]]

\* Rga::effect
Rga_effect(self, event) ==
    IF event.data.type = "Inserted"
    THEN Rga_apply_inserted(self, event.data.predecessor, event.data.ptr, event.data.val)
    ELSE Rga_apply_removed(self, event.data.pos)

\* Crdt::query of the implementation behind crdt: Counter (a record with
\* `val`), LWWRegister (with `time`) or the one its `kind` names
Crdt_query(crdt) ==
    IF "val" \in DOMAIN crdt THEN Counter_query(crdt)
    ELSE IF "time" \in DOMAIN crdt THEN LWWRegister_query(crdt)
    ELSE IF crdt.kind = "ORSet" THEN ORSet_query(crdt)
    ELSE IF crdt.kind = "MVRegister" THEN MVRegister_query(crdt)
    ELSE IF crdt.kind = "LSeq" THEN LSeq_query(crdt)
    ELSE Rga_query(crdt)

\* Crdt::prepare
Crdt_prepare(crdt, op) ==
    IF "val" \in DOMAIN crdt THEN Counter_prepare(crdt, op)
    ELSE IF "time" \in DOMAIN crdt THEN LWWRegister_prepare(crdt, op)
    ELSE IF crdt.kind = "ORSet" THEN ORSet_prepare(crdt, op)
    ELSE IF crdt.kind = "MVRegister" THEN MVRegister_prepare(crdt, op)
    ELSE IF crdt.kind = "LSeq" THEN LSeq_prepare(crdt, op)
    ELSE Rga_prepare(crdt, op)

\* Crdt::effect
Crdt_effect(crdt, event) ==
    IF "val" \in DOMAIN crdt THEN Counter_effect(crdt, event)
    ELSE IF "time" \in DOMAIN crdt THEN LWWRegister_effect(crdt, event)
    ELSE IF crdt.kind = "ORSet" THEN ORSet_effect(crdt, event)
    ELSE IF crdt.kind = "MVRegister" THEN MVRegister_effect(crdt, event)
    ELSE IF crdt.kind = "LSeq" THEN LSeq_effect(crdt, event)
    ELSE Rga_effect(crdt, event)

\* InMemoryDb::default
InMemoryDb_default == [state |-> None, events |-> EmptyMap]

\* InMemoryDb::load_snapshot
InMemoryDb_load_snapshot(db) == db.state

\* InMemoryDb::save_snapshot
InMemoryDb_save_snapshot(db, st) == [db EXCEPT !.state = Some(st)]

\* InMemoryDb::load_events: the events with local_seq >= start_seq, ascending
InMemoryDb_load_events(db, start_seq) ==
    LET keys == Ascending({k \in DOMAIN db.events : k >= start_seq})
    IN  [n \in 1 .. Len(keys) |-> db.events[keys[n]]]

\* InMemoryDb::save_events: insert every event under its local_seq
RECURSIVE InMemoryDb_insert_all(_, _)
InMemoryDb_insert_all(map, events) ==
    IF events = << >> THEN map
    ELSE InMemoryDb_insert_all(MapPut(map, Head(events).local_seq, Head(events)),
                               Tail(events))

InMemoryDb_save_events(db, events) ==
    [db EXCEPT !.events = InMemoryDb_insert_all(@, events)]

\* ReplicationState::is_unseen
ReplicationState_is_unseen(st, node_id, e) ==
    IF node_id \in DOMAIN st.observed /\ e.origin_seq <= st.observed[node_id]
    THEN FALSE
    ELSE VTime_partial_cmp(e.version, st.version) \in {"Greater", "None"}

\* Replicator::new over an empty store
Replicator_new(id) ==
    [store |-> InMemoryDb_default,
     state |-> [id |-> id, seq |-> 0, version |-> EmptyMap,
                observed |-> EmptyMap, crdt |-> Counter_default]]

\* a replay loop that leaves the version as the snapshot has it
RECURSIVE Replicator_new_replay_noversion(_, _)
Replicator_new_replay_noversion(st, db) ==
    LET events == InMemoryDb_load_events(db, st.seq + 1)
    IN  IF events = << >> THEN st
        ELSE Replicator_new_replay_noversion(
                 [st EXCEPT !.seq = Max(@, Head(events).local_seq),
                            !.observed = MapPut(@, Head(events).origin, Head(events).origin_seq),
                            !.crdt = Crdt_effect(@, Head(events))],
                 db)

\* Replicator::new, the replay loop: every pass loads the events from
\* state.seq + 1 on and applies the first of them
RECURSIVE Replicator_new_replay(_, _)
Replicator_new_replay(st, db) ==
    LET events == InMemoryDb_load_events(db, st.seq + 1)
    IN  IF events = << >> THEN st
        ELSE LET event == Head(events)
             IN  Replicator_new_replay(
                     [st EXCEPT !.seq = IF @ >= event.local_seq THEN @ ELSE event.local_seq,
                                !.version = VTime_merge(@, event.version),
                                !.observed = MapPut(@, event.origin, event.origin_seq),
                                !.crdt = Crdt_effect(@, event)],
                     db)

\* Replicator::new over a store that may hold a snapshot and events
Replicator_new_with(id, crdt, db) ==
    LET snapshot == InMemoryDb_load_snapshot(db)
        fresh    == [id |-> id, seq |-> 0, version |-> EmptyMap,
                     observed |-> EmptyMap, crdt |-> crdt]
        st       == IF snapshot = None THEN fresh ELSE snapshot[1]
    IN  [store |-> db, state |-> Replicator_new_replay(st, db)]

\* Replicator::query
Replicator_query(self) == Crdt_query(self.state.crdt)

Noop == [type |-> "Noop"]

\* max_count of every Replicate message: the batch size, 100 in the source,
\* scaled so that a batch fills up within RMaxCmds commands
max_count == 2

\* a Command arm that passes the event to effect twice
Replicator_send_Command_twice(self, cmd) ==
    LET seq     == self.state.seq + 1
        version == VTime_increment(self.state.version, self.state.id)
        event   == [origin |-> self.state.id, origin_seq |-> seq, local_seq |-> seq,
                    version |-> version, data |-> Crdt_prepare(self.state.crdt, cmd)]
    IN  << [store |-> InMemoryDb_save_events(self.store, <<event>>),
            state |-> [self.state EXCEPT !.seq = seq, !.version = version,
                                         !.crdt = Crdt_effect(Crdt_effect(@, event), event)]],
           Noop >>

\* Replicator::send, Protocol::Command arm: returns <<self', reply>>
Replicator_send_Command(self, cmd) ==
    LET seq     == self.state.seq + 1
        version == VTime_increment(self.state.version, self.state.id)
        data    == Crdt_prepare(self.state.crdt, cmd)
        event   == [origin |-> self.state.id, origin_seq |-> seq, local_seq |-> seq,
                    version |-> version, data |-> data]
    IN  << [store |-> InMemoryDb_save_events(self.store, <<event>>),
            state |-> [self.state EXCEPT !.seq = seq, !.version = version,
                                         !.crdt = Crdt_effect(@, event)]],
           Noop >>

\* Replicator::send, Protocol::Connect arm
Replicator_send_Connect(self, replica_id) ==
    << self,
       [type |-> "Replicate",
        seq_nr |-> MapGet(self.state.observed, replica_id, 0) + 1,
        max_count |-> max_count,
        filter |-> self.state.version,
        reply_to |-> self.state.id] >>

\* the while loop of Replicator::replay over the taken event stream:
\* returns <<last_seq_nr, events>>
RECURSIVE Replicator_replay_loop(_, _, _, _, _, _)
Replicator_replay_loop(stream, filter, count, i, last_seq_nr, events) ==
    IF stream = << >> THEN <<last_seq_nr, events>>
    ELSE LET e    == Head(stream)
             last == Max(last_seq_nr, e.local_seq)
             keep == VTime_partial_cmp(e.version, filter) \in {"Greater", "None"}
             evs  == IF keep THEN Append(events, e) ELSE events
             i2   == IF keep THEN i + 1 ELSE i
         IN  IF i2 >= count THEN <<last, evs>>
             ELSE Replicator_replay_loop(Tail(stream), filter, count, i2, last, evs)

\* a replay whose to_seq_nr is the local_seq of the last event it returns
Replicator_replay_lastkept(self, replica_id, filter, seq_nr, count) ==
    LET all    == InMemoryDb_load_events(self.store, seq_nr)
        stream == SubSeq(all, 1, IF Len(all) < count THEN Len(all) ELSE count)
        r      == Replicator_replay_loop(stream, filter, count, 0, 0, << >>)
    IN  [type |-> "Replicated", from |-> replica_id,
         to_seq_nr |-> IF r[2] = << >> THEN 0 ELSE r[2][Len(r[2])].local_seq,
         events |-> r[2]]

\* Replicator::replay
Replicator_replay(self, replica_id, filter, seq_nr, count) ==
    LET all    == InMemoryDb_load_events(self.store, seq_nr)
        stream == SubSeq(all, 1, IF Len(all) < count THEN Len(all) ELSE count)
        r      == Replicator_replay_loop(stream, filter, count, 0, 0, << >>)
    IN  [type |-> "Replicated", from |-> replica_id, to_seq_nr |-> r[1], events |-> r[2]]

\* Replicator::send, Protocol::Replicate arm
Replicator_send_Replicate(self, replicate) ==
    << self,
       Replicator_replay(self, self.state.id, replicate.filter,
                         replicate.seq_nr, replicate.max_count) >>

\* an empty-Replicated arm that records to_seq_nr whatever it is
Replicator_send_Replicated_empty_always(self, replicated) ==
    LET st == [self.state EXCEPT
                 !.observed = MapPut(@, replicated.from, replicated.to_seq_nr)]
    IN  << [store |-> InMemoryDb_save_snapshot(self.store, st), state |-> st], Noop >>

\* Replicator::send, Protocol::Replicated arm with no events
Replicator_send_Replicated_empty(self, replicated) ==
    LET observed_seq_nr == MapGet(self.state.observed, replicated.from, 0)
    IN  IF replicated.to_seq_nr > observed_seq_nr
        THEN LET st == [self.state EXCEPT
                          !.observed = MapPut(@, replicated.from, replicated.to_seq_nr)]
             IN  << [store |-> InMemoryDb_save_snapshot(self.store, st), state |-> st],
                    Noop >>
        ELSE <<self, Noop>>

\* a for loop that saves the events under the sender's local_seq
RECURSIVE Replicator_apply_loop_keepseq(_, _, _, _, _)
Replicator_apply_loop_keepseq(events, from, new_state, remote_seq_nr, to_save) ==
    IF events = << >> THEN <<new_state, to_save>>
    ELSE LET e      == Head(events)
             remote == Max(remote_seq_nr, e.local_seq)
             st     == [new_state EXCEPT
                          !.seq = @ + 1,
                          !.version = VTime_merge(@, e.version),
                          !.crdt = Crdt_effect(@, e),
                          !.observed = MapPut(@, from, remote)]
         IN  Replicator_apply_loop_keepseq(Tail(events), from, st, remote,
                                           Append(to_save, e))

\* the for loop of the Replicated arm over the unseen events:
\* returns <<new_state, to_save>>
RECURSIVE Replicator_apply_loop(_, _, _, _, _)
Replicator_apply_loop(events, from, new_state, remote_seq_nr, to_save) ==
    IF events = << >> THEN <<new_state, to_save>>
    ELSE LET e      == Head(events)
             seq    == new_state.seq + 1
             remote == Max(remote_seq_nr, e.local_seq)
             st     == [new_state EXCEPT
                          !.seq = seq,
                          !.version = VTime_merge(@, e.version),
                          !.crdt = Crdt_effect(@, e),
                          !.observed = MapPut(@, from, remote)]
         IN  Replicator_apply_loop(Tail(events), from, st, remote,
                                   Append(to_save, [e EXCEPT !.local_seq = seq]))

\* a Replicated arm whose follow-up Replicate starts again at seq_nr 1
Replicator_send_Replicated_restart(self, replicated) ==
    LET unseen == SelectSeq(replicated.events,
                            LAMBDA e : ReplicationState_is_unseen(self.state,
                                                                   replicated.from, e))
        r      == Replicator_apply_loop(unseen, replicated.from, self.state,
                                        MapGet(self.state.observed, replicated.from, 0),
                                        << >>)
    IN  << [store |-> InMemoryDb_save_events(self.store, r[2]), state |-> r[1]],
           [type |-> "Replicate", seq_nr |-> 1, max_count |-> max_count,
            filter |-> r[1].version, reply_to |-> r[1].id] >>

\* Replicator::send, Protocol::Replicated arm with events; the filter is
\* evaluated against self.state, which the loop does not change
Replicator_send_Replicated(self, replicated) ==
    LET unseen == SelectSeq(replicated.events,
                            LAMBDA e : ReplicationState_is_unseen(self.state,
                                                                   replicated.from, e))
        r      == Replicator_apply_loop(unseen, replicated.from, self.state,
                                        MapGet(self.state.observed, replicated.from, 0),
                                        << >>)
    IN  << [store |-> InMemoryDb_save_events(self.store, r[2]), state |-> r[1]],
           [type |-> "Replicate",
            seq_nr |-> replicated.to_seq_nr + 1,
            max_count |-> max_count,
            filter |-> r[1].version,
            reply_to |-> r[1].id] >>

\* Replicator::send, Protocol::Command arm, when save_events does not
\* complete: the state reached at the await, the store untouched
Replicator_send_Command_unsaved(self, cmd) ==
    [store |-> self.store,
     state |-> [self.state EXCEPT !.seq = @ + 1,
                                  !.version = VTime_increment(@, self.state.id)]]

\* Replicator::send, Protocol::Replicated arm with events, when save_events
\* does not complete: self.state = new_state has run, the store is untouched
Replicator_send_Replicated_unsaved(self, replicated) ==
    [store |-> self.store,
     state |-> Replicator_send_Replicated(self, replicated)[1].state]

\* the initial message built by replicate()
replicate_message(replica, from_id) ==
    [type |-> "Replicate",
     seq_nr |-> MapGet(replica.state.observed, from_id, 0) + 1,
     max_count |-> max_count,
     filter |-> replica.state.version,
     reply_to |-> replica.state.id]

-----------------------------------------------------------------------------
(* Replicators driven by a program: local commands and pull replication    *)

\* cap on the number of Commands issued in one run
RMaxCmds == 3

\* cap on the number of replicate/connect calls made before the final exchange
RMaxPulls == 3

\* one more replicate/connect call is started
Pull ==
    /\ driver[4] < RMaxPulls
    /\ driver' = [driver EXCEPT ![4] = driver[4] + 1]

\* the replicator with id r
Rep(r) == [store |-> store[r], state |-> state[r]]

\* number of Commands issued so far: every Command advances the issuer's own
\* entry of its version
Issued ==
    LET own(r) == MapGet(state[r].version, r, 0)
        RECURSIVE Sum(_)
        Sum(S) == IF S = {} THEN 0
                  ELSE LET r == CHOOSE x \in S : TRUE IN own(r) + Sum(S \ {r})
    IN  Sum(DOMAIN state)

InitReplicators(ids) ==
    /\ state = [r \in ids |-> Replicator_new(r).state]
    /\ store = [r \in ids |-> Replicator_new(r).store]
    /\ link = None
    /\ driver = <<"run", 0, 0, 0>>
    /\ fault = None
    /\ NoKernelLaws /\ NoDeltaReplicas /\ NoMaps

\* replica r handles one message and becomes `res[1]`
Becomes(r, res) ==
    /\ state' = [state EXCEPT ![r] = res[1].state]
    /\ store' = [store EXCEPT ![r] = res[1].store]

\* r.send(Protocol::Command(cmd))
Command(r, cmd) ==
    /\ driver[1] = "run" /\ link = None
    /\ Issued < RMaxCmds
    /\ Becomes(r, Replicator_send_Command(Rep(r), cmd))
    /\ UNCHANGED <<link, driver, fault, kernelVars, deltaVars, mapVars>>

\* replicate(replica, from) builds the first Replicate message
Replicate(r, f) ==
    /\ driver[1] = "run" /\ link = None
    /\ r # f
    /\ Pull
    /\ link' = Some([replica |-> r, from |-> f, msg |-> replicate_message(Rep(r), f)])
    /\ UNCHANGED <<state, store, fault, kernelVars, deltaVars, mapVars>>

\* connect(replica, to): the first message is replica's reply to Connect
Connect(r, f) ==
    /\ driver[1] = "run" /\ link = None
    /\ r # f
    /\ Pull
    /\ link' = Some([replica |-> r, from |-> f,
                     msg |-> Replicator_send_Connect(Rep(r), f)[2]])
    /\ UNCHANGED <<state, store, fault, kernelVars, deltaVars, mapVars>>

\* replicate_impl: from.send(replicate_response)
FromSend ==
    /\ link # None /\ link[1].msg.type = "Replicate"
    /\ LET res == Replicator_send_Replicate(Rep(link[1].from), link[1].msg)
       IN  /\ Becomes(link[1].from, res)
           /\ link' = Some([link[1] EXCEPT !.msg = res[2]])
    /\ UNCHANGED <<driver, fault, kernelVars, deltaVars, mapVars>>

\* replicate_impl: replica.send(Replicated) with no events; the Noop ends the
\* loop
ReplicatedEmpty ==
    /\ link # None /\ link[1].msg.type = "Replicated"
    /\ link[1].msg.events = << >>
    /\ Becomes(link[1].replica,
               Replicator_send_Replicated_empty(Rep(link[1].replica), link[1].msg))
    /\ link' = None
    /\ UNCHANGED <<driver, fault, kernelVars, deltaVars, mapVars>>

\* replicate_impl: replica.send(Replicated) with events; the loop goes on
\* with the follow-up Replicate
ReplicatedEvents ==
    /\ link # None /\ link[1].msg.type = "Replicated"
    /\ link[1].msg.events # << >>
    /\ LET res == Replicator_send_Replicated(Rep(link[1].replica), link[1].msg)
       IN  /\ Becomes(link[1].replica, res)
           /\ link' = Some([link[1] EXCEPT !.msg = res[2]])
    /\ UNCHANGED <<driver, fault, kernelVars, deltaVars, mapVars>>

\* r.send(Protocol::Command(cmd)) stops at save_events
CommandUnsaved(r, cmd) ==
    /\ driver[1] = "run" /\ link = None /\ fault = None
    /\ Issued < RMaxCmds
    /\ state' = [state EXCEPT ![r] = Replicator_send_Command_unsaved(Rep(r), cmd).state]
    /\ fault' = Some([replica |-> r, msg |-> "Command", before |-> state[r]])
    /\ UNCHANGED <<store, link, driver, kernelVars, deltaVars, mapVars>>

\* replica.send(Replicated) with events stops at save_events; the replicate
\* call ends with it
ReplicatedUnsaved ==
    /\ link # None /\ link[1].msg.type = "Replicated" /\ fault = None
    /\ link[1].msg.events # << >>
    /\ state' = [state EXCEPT ![link[1].replica] =
                    Replicator_send_Replicated_unsaved(Rep(link[1].replica), link[1].msg).state]
    /\ fault' = Some([replica |-> link[1].replica, msg |-> "Replicated",
                      before |-> state[link[1].replica]])
    /\ link' = None
    /\ UNCHANGED <<store, driver, kernelVars, deltaVars, mapVars>>

\* the program stops issuing commands and calls replicate(a, b) ...
FinalReplicateAB(a, b) ==
    /\ driver[1] = "run" /\ link = None
    /\ a # b
    /\ driver' = <<"replicate_ab", a, b, driver[4]>>
    /\ link' = Some([replica |-> a, from |-> b, msg |-> replicate_message(Rep(a), b)])
    /\ UNCHANGED <<state, store, fault, kernelVars, deltaVars, mapVars>>

\* ... and, once that returned, replicate(b, a)
FinalReplicateBA ==
    /\ driver[1] = "replicate_ab" /\ link = None
    /\ driver' = [driver EXCEPT ![1] = "replicate_ba"]
    /\ link' = Some([replica |-> driver[3], from |-> driver[2],
                     msg |-> replicate_message(Rep(driver[3]), driver[2])])
    /\ UNCHANGED <<state, store, fault, kernelVars, deltaVars, mapVars>>

\* both calls returned: the program queries the two replicas
FinalQuery ==
    /\ driver[1] = "replicate_ba" /\ link = None
    /\ driver' = [driver EXCEPT ![1] = "done"]
    /\ UNCHANGED <<state, store, link, fault, kernelVars, deltaVars, mapVars>>

\* commands the two-replica program issues (test::commutativity uses 34 and
\* 35)
PairCmds == {34, 35, 1, -1, I64_MAX}

PairIds == {0, 1}

InitPair == InitReplicators(PairIds)

NextPair ==
    \/ \E r \in PairIds, c \in PairCmds : Command(r, c)
    \/ \E r \in PairIds, f \in PairIds : Replicate(r, f)
    \/ \E r \in PairIds, f \in PairIds : Connect(r, f)
    \/ FromSend
    \/ ReplicatedEmpty
    \/ ReplicatedEvents
    \/ \E a \in PairIds, b \in PairIds : FinalReplicateAB(a, b)
    \/ FinalReplicateBA
    \/ FinalQuery

SpecPair == InitPair /\ [][NextPair]_vars

\* sum of the commands issued on replica r: the data of the events r's store
\* holds with origin r
RECURSIVE SumData(_, _)
SumData(events, keys) ==
    IF keys = {} THEN 0
    ELSE LET k == CHOOSE x \in keys : TRUE
         IN  events[k].data + SumData(events, keys \ {k})

IssuedSum(r) ==
    SumData(store[r].events, {k \in DOMAIN store[r].events : store[r].events[k].origin = r})

\* C1: two-replica convergence: after any history of commands and pull
\* replications, replicate(a, b) followed by replicate(b, a) leaves
\* a.query() = b.query(), equal to the sum of all commands issued.
C1_PairConverges ==
    driver[1] = "done"
    => /\ Replicator_query(Rep(driver[2])) = Replicator_query(Rep(driver[3]))
       /\ Replicator_query(Rep(driver[2])) = IssuedSum(driver[2]) + IssuedSum(driver[3])

\* two replicators whose store may fail: after the failed send the run is
\* over
FaultyCmds == {34, 35}

NextFaulty ==
    \/ \E r \in PairIds, c \in FaultyCmds : fault = None /\ Command(r, c)
    \/ \E r \in PairIds, f \in PairIds : fault = None /\ Replicate(r, f)
    \/ \E r \in PairIds, f \in PairIds : fault = None /\ Connect(r, f)
    \/ fault = None /\ FromSend
    \/ fault = None /\ ReplicatedEmpty
    \/ fault = None /\ ReplicatedEvents
    \/ \E r \in PairIds, c \in FaultyCmds : CommandUnsaved(r, c)
    \/ ReplicatedUnsaved

SpecFaulty == InitPair /\ [][NextFaulty]_vars

\* C15: when save_events does not complete while a Replicator handles Command
\* or a non-empty Replicated, the Replicator's in-memory state (seq, version,
\* observed, crdt) is what it was before the message was handled.
C15_NoAdvanceOnFailure ==
    fault # None => state[fault[1].replica] = fault[1].before

\* three replicators: events are relayed
TrioIds == {0, 1, 2}

TrioCmds == {1}

InitTrio == InitReplicators(TrioIds)

NextTrio ==
    \/ \E r \in TrioIds, c \in TrioCmds : Command(r, c)
    \/ \E r \in TrioIds, f \in TrioIds : Replicate(r, f)
    \/ \E r \in TrioIds, f \in TrioIds : Connect(r, f)
    \/ FromSend
    \/ ReplicatedEmpty
    \/ ReplicatedEvents

SpecTrio == InitTrio /\ [][NextTrio]_vars

\* the events replica r has passed to crdt.effect: every effected event is
\* saved under its local_seq
Effected(r) == {store[r].events[k] : k \in DOMAIN store[r].events}

AllEvents == UNION {Effected(r) : r \in DOMAIN store}

\* C2: reliable causal broadcast: whenever a replica has effected an event e,
\* it has effected before it every event whose version is strictly less than
\* e.version.
C2_CausalDelivery ==
    \A r \in DOMAIN store : \A e \in Effected(r) : \A p \in AllEvents :
        VTime_partial_cmp(p.version, e.version) = "Less"
        => \E q \in Effected(r) :
              /\ q.origin = p.origin /\ q.origin_seq = p.origin_seq
              /\ q.local_seq < e.local_seq

\* the stored events of replica r form the log 1..seq
DenseLog(r) ==
    /\ DOMAIN store[r].events = 1 .. state[r].seq
    /\ \A k \in DOMAIN store[r].events : store[r].events[k].local_seq = k

\* keys a step added to the store of replica r
NewKeys(r) == (DOMAIN store'[r].events) \ (DOMAIN store[r].events)

\* C16: after any sequence of completed sends the keys of a replica's event
\* store are exactly 1..state.seq, every stored event's local_seq is its key,
\* state.seq never decreases, and the events a send accepts take the
\* local_seq values that follow the previous seq one by one.
C16_LocalSeqDense ==
    /\ [](\A r \in DOMAIN state : DenseLog(r))
    /\ [][\A r \in DOMAIN state :
            /\ state'[r].seq >= state[r].seq
            /\ NewKeys(r) = (state[r].seq + 1) .. state'[r].seq
            /\ \A k \in DOMAIN store[r].events : store'[r].events[k] = store[r].events[k]]_vars

\* C16 witness: a replica has accepted a local and a relayed remote event,
\* the remote one under a local_seq that differs from the sender's
C16_Witness ==
    \E r \in DOMAIN state :
        /\ state[r].seq >= 3
        /\ \E k \in DOMAIN store[r].events : store[r].events[k].origin = r
        /\ \E k \in DOMAIN store[r].events :
              /\ store[r].events[k].origin # r
              /\ store[r].events[k].origin_seq # k

\* C17: handling a message never lowers observed[p], for any replica and any
\* peer p; the empty-Replicated branch changes observed[from] only to a
\* to_seq_nr strictly greater than the stored value.
C17_ObservedMonotone ==
    [][\A r \in DOMAIN state :
          /\ \A p \in DOMAIN state[r].observed :
                /\ p \in DOMAIN state'[r].observed
                /\ state'[r].observed[p] >= state[r].observed[p]
          /\ (link # None /\ link[1].replica = r /\ link[1].msg.type = "Replicated"
              /\ link[1].msg.events = << >>
              /\ state'[r].observed # state[r].observed)
             => /\ link[1].msg.to_seq_nr > MapGet(state[r].observed, link[1].from, 0)
                /\ state'[r].observed =
                      MapPut(state[r].observed, link[1].from, link[1].msg.to_seq_nr)]_vars

\* C17 witness: a replica that has raised observed[p] handles an empty
\* Replicated from p whose to_seq_nr is below it
C17_Witness ==
    /\ link # None /\ link[1].msg.type = "Replicated"
    /\ link[1].msg.events = << >>
    /\ link[1].msg.to_seq_nr < MapGet(state[link[1].replica].observed, link[1].from, 0)

\* element-wise maximum of a clock and the versions of a set of events
JoinVersions(v, events) ==
    [k \in (DOMAIN v) \cup UNION {DOMAIN e.version : e \in events} |->
        LET vals == {MapGet(v, k, 0)} \cup {MapGet(e.version, k, 0) : e \in events}
        IN  CHOOSE m \in vals : \A x \in vals : x <= m]

\* C18: no send lowers an entry of state.version; Command raises the
\* replica's own entry by exactly 1 and leaves the others unchanged; a
\* non-empty Replicated replaces the version by the element-wise maximum of
\* the old version and the versions of the accepted events.
C18_VersionMonotone ==
    [][\A r \in DOMAIN state :
          /\ \A k \in DOMAIN state[r].version :
                /\ k \in DOMAIN state'[r].version
                /\ state'[r].version[k] >= state[r].version[k]
          /\ (link = None /\ state'[r] # state[r])
             => state'[r].version =
                   MapPut(state[r].version, r, MapGet(state[r].version, r, 0) + 1)
          /\ (link # None /\ link[1].replica = r /\ link[1].msg.type = "Replicated"
              /\ link[1].msg.events # << >>)
             => state'[r].version =
                   JoinVersions(state[r].version,
                                {store'[r].events[k] : k \in NewKeys(r)})]_vars

\* C18 witness: a replica has merged the version of an event concurrent with
\* its own: its version holds its own entry at 2 and a peer's entry
C18_Witness ==
    \E r \in DOMAIN state :
        /\ MapGet(state[r].version, r, 0) >= 2
        /\ \E k \in DOMAIN store[r].events :
              /\ store[r].events[k].origin # r
              /\ VTime_partial_cmp(store[r].events[k].version,
                                   store[r].events[1].version) = "None"

\* three replicators over an LWWRegister<ReplicaId>, each of which may be
\* dropped and reconstructed from its store; driver[2] = 1 once that has
\* happened; every replica writes its own id, so that a value names its writer

InitLww ==
    /\ state = [r \in TrioIds |-> Replicator_new_with(r, LWWRegister_new(r), InMemoryDb_default).state]
    /\ store = [r \in TrioIds |-> InMemoryDb_default]
    /\ link = None
    /\ driver = <<"run", 0, 0, 0>>
    /\ fault = None
    /\ NoKernelLaws /\ NoDeltaReplicas /\ NoMaps

\* Replicator::new(id, LWWRegister::new(id), store) over the store replica r
\* has written so far
Restart(r) ==
    /\ driver[1] = "run" /\ link = None
    /\ state' = [state EXCEPT ![r] = Replicator_new_with(r, LWWRegister_new(r), store[r]).state]
    /\ driver' = [driver EXCEPT ![2] = 1]
    /\ UNCHANGED <<store, link, fault, kernelVars, deltaVars, mapVars>>

NextLww ==
    \/ \E r \in TrioIds : Command(r, Some(r))
    \/ \E r \in TrioIds, f \in TrioIds : Replicate(r, f)
    \/ \E r \in TrioIds, f \in TrioIds : Connect(r, f)
    \/ FromSend
    \/ ReplicatedEmpty
    \/ ReplicatedEvents
    \/ \E r \in TrioIds : Restart(r)

SpecLww == InitLww /\ [][NextLww]_vars

\* C19: in any execution of a Replicator over an LWWRegister (local Commands,
\* pull replication between any replicas, reconstruction from the store),
\* effect is never called with an event whose version is equal to or less
\* than the register's time: the Equal | Greater arm is never reached.
C19_AssertionUnreachable ==
    \A r \in DOMAIN state : ~state[r].crdt.panicked

\* a replica reconstructed from a snapshot and later events, among them a
\* relayed one, whose log holds two concurrent writes
C19_Witness ==
    /\ driver[2] = 1
    /\ \E r \in DOMAIN state :
          /\ store[r].state # None
          /\ state[r] = Replicator_new_with(r, LWWRegister_new(r), store[r]).state
          /\ \E k \in DOMAIN store[r].events :
                /\ k > store[r].state[1].seq
                /\ store[r].events[k].origin # r
          /\ \E e1 \in Effected(r), e2 \in Effected(r) :
                VTime_partial_cmp(e1.version, e2.version) = "None"
          /\ ~state[r].crdt.panicked

\* the write events replica r has effected, each named by its origin and the
\* sequence number it has there
EffectedIds(r) == {<<e.origin, e.origin_seq>> : e \in Effected(r)}

\* replica r has effected its events in an order consistent with causality
CausalLog(r) ==
    \A k1 \in DOMAIN store[r].events, k2 \in DOMAIN store[r].events :
        k1 < k2 => VTime_partial_cmp(store[r].events[k2].version,
                                     store[r].events[k1].version) # "Less"

\* C20: LWWRegister convergence: for any number of replicas with distinct
\* ids, replicas that have effected the same set of write events, each in an
\* order consistent with causality, return the same value from query(); in
\* particular two replicas that have effected the same two concurrent writes
\* keep the same winner, whatever their ids and the order of the two effects.
C20_LwwConverges ==
    /\ (\A r \in DOMAIN state : EffectedIds(r) = EffectedIds(0) /\ CausalLog(r))
       => \A r \in DOMAIN state : Replicator_query(Rep(r)) = Replicator_query(Rep(0))
    /\ \A r \in DOMAIN state, q \in DOMAIN state :
          (EffectedIds(r) = EffectedIds(q) /\ CausalLog(r) /\ CausalLog(q))
          => Replicator_query(Rep(r)) = Replicator_query(Rep(q))

-----------------------------------------------------------------------------
(* Two Replicators (alice 0, bob 1) over one of the other op-based CRDTs   *)

\* the Commands a program may send to a replica whose crdt is `crdt`
OpsCmds(crdt) ==
    IF crdt.kind = "ORSet"
    THEN [type : {"Add", "Remove"}, val : {"nice", "nah"}]
    ELSE IF crdt.kind = "MVRegister"
    THEN {Some("nice"), Some("nah"), None}
    ELSE [type : {"Insert"}, i : 0 .. Len(Crdt_query(crdt)), val : {"nice", "nah"}]
         \cup [type : {"RemoveAt"}, i : 0 .. Len(Crdt_query(crdt)) - 1]

\* Replicator::new(id, fresh[id], InMemoryDb::default()) for alice and bob
InitOps(fresh) ==
    /\ state = [r \in PairIds |->
                  Replicator_new_with(r, fresh[r], InMemoryDb_default).state]
    /\ store = [r \in PairIds |-> InMemoryDb_default]
    /\ link = None
    /\ driver = <<"run", 0, 0, 0>>
    /\ fault = None
    /\ NoKernelLaws /\ NoDeltaReplicas /\ NoMaps

NextOps ==
    \/ \E r \in PairIds : \E c \in OpsCmds(state[r].crdt) : Command(r, c)
    \/ \E r \in PairIds, f \in PairIds : Replicate(r, f)
    \/ \E r \in PairIds, f \in PairIds : Connect(r, f)
    \/ FromSend
    \/ ReplicatedEmpty
    \/ ReplicatedEvents

SpecORSet == InitOps([r \in PairIds |-> ORSet_new]) /\ [][NextOps]_vars

\* C21: the op-based ORSet is add-wins and removes only what was observed:
\* on every replica the set holds exactly the effected Add instances that no
\* effected Remove lists, so an Add that the remover had not effected when it
\* prepared Remove(v) keeps v in query(); and the Removed event of a
\* Remove(v) lists exactly the clocks of the instances of v the remover held
\* at prepare time, so it deletes no other element.
C21_AddWinsObservedRemove ==
    /\ [](\A r \in DOMAIN state :
            state[r].crdt.values
            = {<<a.data.val, a.version>> :
                 a \in {e \in Effected(r) :
                          /\ e.data.type = "Added"
                          /\ \A m \in Effected(r) :
                                m.data.type = "Removed" => e.version \notin m.data.removed}})
    /\ [][\A r \in DOMAIN state :
            (\E k \in DOMAIN store'[r].events \ DOMAIN store[r].events :
                /\ store'[r].events[k].origin = r
                /\ store'[r].events[k].data.type = "Removed")
            => LET m == store'[r].events[state'[r].seq]
               IN  \E v \in {"nice", "nah"} :
                     /\ m.data.removed = {e[2] : e \in {x \in state[r].crdt.values : x[1] = v}}
                     /\ state'[r].crdt.values = {x \in state[r].crdt.values : x[1] # v}]_vars

\* alice removed the instance of nah she held while bob added nah; both have
\* effected both events and nah is in both queries
C21_Witness ==
    /\ \A r \in DOMAIN state : Replicator_query(Rep(r)) = {"nah"}
    /\ EffectedIds(0) = EffectedIds(1)
    /\ \E m \in Effected(0) :
          /\ m.data.type = "Removed" /\ m.data.removed # {} /\ m.origin = 0
          /\ \E a \in Effected(0) :
                /\ a.data.type = "Added" /\ a.data.val = "nah" /\ a.origin = 1
                /\ VTime_partial_cmp(a.version, m.version) = "None"

SpecMVRegister == InitOps([r \in PairIds |-> MVRegister_new]) /\ [][NextOps]_vars

\* C22: the op-based MVRegister keeps exactly the concurrent writes: on every
\* replica the stored writes are the effected writes that no effected write
\* dominates, each stored once; stored writes are pairwise concurrent; and
\* query() returns the values of all of them, so two concurrent writes are
\* both returned once both are effected.
C22_KeepsConcurrentWrites ==
    \A r \in DOMAIN state :
        LET w       == state[r].crdt.values
            stored  == {w[i] : i \in DOMAIN w}
            maximal == {<<e.version, e.data>> :
                          e \in {x \in Effected(r) :
                                   \A y \in Effected(r) :
                                       VTime_partial_cmp(x.version, y.version) # "Less"}}
        IN  /\ stored = maximal
            /\ Cardinality(stored) = Len(w)
            /\ \A p \in stored, q \in stored :
                  p # q => VTime_partial_cmp(p[1], q[1]) = "None"
            /\ Replicator_query(Rep(r)) = {p[2][1] : p \in {q \in maximal : q[2] # None}}

\* alice wrote nice while bob wrote nah; after replication in both
\* directions both queries return both values
C22_Witness ==
    /\ EffectedIds(0) = EffectedIds(1)
    /\ \A r \in DOMAIN state :
          /\ Replicator_query(Rep(r)) = {"nice", "nah"}
          /\ Len(state[r].crdt.values) = 2
    /\ \E a \in Effected(0), b \in Effected(0) :
          /\ a.origin = 0 /\ b.origin = 1
          /\ VTime_partial_cmp(a.version, b.version) = "None"

\* number of Commands the programs over the sequence CRDTs send
SMaxCmds == 4

\* r.send(Protocol::Command(cmd)) of those programs
SeqCommand(r, cmd) ==
    /\ driver[1] = "run" /\ link = None
    /\ Issued < SMaxCmds
    /\ Becomes(r, Replicator_send_Command(Rep(r), cmd))
    /\ UNCHANGED <<link, driver, fault, kernelVars, deltaVars, mapVars>>

\* commands and pulls in any interleaving, then replicate(a, b) and
\* replicate(b, a) and the two queries; alice writes nice, bob writes nah
NextSeq ==
    \/ \E r \in PairIds :
          \E c \in {x \in OpsCmds(state[r].crdt) :
                      x.type = "Insert" => x.val = (IF r = 0 THEN "nice" ELSE "nah")} :
              SeqCommand(r, c)
    \/ \E r \in PairIds, f \in PairIds : Replicate(r, f)
    \/ FromSend
    \/ ReplicatedEmpty
    \/ ReplicatedEvents
    \/ \E a \in PairIds, b \in PairIds : FinalReplicateAB(a, b)
    \/ FinalReplicateBA
    \/ FinalQuery

SpecLSeq == InitOps([r \in PairIds |-> LSeq_new(r)]) /\ [][NextSeq]_vars

\* C23: LSeq convergence: after any sequence of local Insert and RemoveAt
\* commands with valid indices on each side, followed by replicate in both
\* directions, both queries return the same ordered sequence.
C23_LSeqConverges ==
    (driver[1] = "done" /\ EffectedIds(0) = EffectedIds(1))
    => Replicator_query(Rep(0)) = Replicator_query(Rep(1))

\* C24: LSeq concurrent removes are idempotent: when a replica that has
\* effected a Removed event effects a second, concurrent Removed event for the
\* same pointer, the element is already absent and the effect changes
\* nothing: no other element is removed.
C24_RemoveIdempotent ==
    [][\A r \in DOMAIN state :
          (/\ state'[r].seq = state[r].seq + 1
           /\ store'[r].events[state'[r].seq].data.type = "Removed"
           /\ \E m \in Effected(r) :
                 /\ m.data.type = "Removed"
                 /\ m.data.ptr = store'[r].events[state'[r].seq].data.ptr
                 /\ VTime_partial_cmp(m.version,
                                      store'[r].events[state'[r].seq].version) = "None")
          => state'[r].crdt = state[r].crdt]_vars

SpecRga == InitOps([r \in PairIds |-> Rga_new(r)]) /\ [][NextSeq]_vars

\* C25: RGA convergence: after any sequence of local Insert and RemoveAt
\* commands with valid indices on each side and of pulls, followed by
\* replicate in both directions, both queries return the same sequence.
C25_RgaConverges ==
    driver[1] = "done" => Replicator_query(Rep(0)) = Replicator_query(Rep(1))

------------------------------------------------------------------------------
(* The laws of DotCtx (dot.rs, test::ctx): ka, kb, kc hold contexts         *)

CMaxSeq == 2

CReplicaIds == {1, 2}

\* vector_clock_strategy: any map from some replica ids to a counter >= 0
CClocks == UNION {[ids -> 0 .. CMaxSeq] : ids \in SUBSET CReplicaIds}

\* dotcloud_strategy: any set of dots, sequence number 0 included
CClouds == SUBSET (CReplicaIds \X (0 .. CMaxSeq))

\* dotctx_strategy: a drawn clock and a drawn cloud, compacted
DotCtxs == {DotCtx_compact([clock |-> c, dot_cloud |-> d]) : c \in CClocks, d \in CClouds}

\* either one context as constructed from any clock and any cloud, or the
\* three compacted contexts of the proptest laws
InitCtx ==
    /\ \/ /\ ka \in [clock : CClocks, dot_cloud : CClouds]
          /\ kb = DotCtx_default /\ kc = DotCtx_default
       \/ ka \in DotCtxs /\ kb \in DotCtxs /\ kc \in DotCtxs
    /\ kres = None
    /\ NoDeltaReplicas /\ NoMaps /\ NoReplicators

\* compact() called on ka, and called once more on the result
CtxCompact ==
    /\ kres = None
    /\ kres' = Some([law |-> "compact",
                     once |-> DotCtx_compact(ka),
                     twice |-> DotCtx_compact(DotCtx_compact(ka))])
    /\ UNCHANGED <<ka, kb, kc, deltaVars, replVars, mapVars>>

\* test::ctx::associativity
CtxAssociativity ==
    /\ kres = None
    /\ kres' = Some([law |-> "associativity",
                     lhs |-> DotCtx_merge(DotCtx_merge(ka, kb), kc),
                     rhs |-> DotCtx_merge(ka, DotCtx_merge(kb, kc))])
    /\ UNCHANGED <<ka, kb, kc, deltaVars, replVars, mapVars>>

SpecCtx == InitCtx /\ [][CtxCompact \/ CtxAssociativity]_vars

\* C26: DotCtx.compact reaches the normal form in one sweep: after compact()
\* on any context (a missing clock entry read as 0) no cloud dot (r, n) has
\* n <= clock[r] + 1, chains (r, c+1), (r, c+2), ... included; a second
\* compact() changes neither clock nor cloud; and every dot with seq >= 1 is
\* contained after compact() iff it was contained before.
C26_CompactNormalForm ==
    (kres # None /\ kres[1].law = "compact")
    => /\ \A d \in kres[1].once.dot_cloud :
             d[2] > MapGet(kres[1].once.clock, d[1], 0) + 1
       /\ kres[1].twice = kres[1].once
       /\ \A d \in CReplicaIds \X (1 .. CMaxSeq + 1) :
             DotCtx_contains(kres[1].once, d) <=> DotCtx_contains(ka, d)

\* C26 witness: compact() ran on a context whose cloud held the chain
\* (r, c+1), (r, c+2) above the clock entry c, and promoted both
C26_Witness ==
    /\ kres # None /\ kres[1].law = "compact"
    /\ \E r \in CReplicaIds :
          LET c == MapGet(ka.clock, r, 0)
          IN  /\ {<<r, c + 1>>, <<r, c + 2>>} \subseteq ka.dot_cloud
              /\ MapGet(kres[1].once.clock, r, 0) = c + 2

\* a context is compacted and holds no dot with sequence number 0
CtxCompacted(ctx) ==
    DotCtx_compact(ctx) = ctx /\ \A d \in ctx.dot_cloud : d[2] >= 1

\* C27: DotCtx.merge is associative under structural equality: for compacted
\* contexts a, b, c, a.merge(b).merge(c) and a.merge(b.merge(c)) have equal
\* clock maps and equal clouds, and the merged context contains exactly the
\* dots contained in at least one operand.
C27_CtxMergeAssociative ==
    (kres # None /\ kres[1].law = "associativity"
        /\ CtxCompacted(ka) /\ CtxCompacted(kb) /\ CtxCompacted(kc))
    => /\ kres[1].lhs.clock = kres[1].rhs.clock
       /\ kres[1].lhs.dot_cloud = kres[1].rhs.dot_cloud
       /\ \A d \in CReplicaIds \X (1 .. CMaxSeq + 1) :
             DotCtx_contains(kres[1].lhs, d)
             <=> (DotCtx_contains(ka, d) \/ DotCtx_contains(kb, d)
                    \/ DotCtx_contains(kc, d))

\* C27 witness: an associativity evaluation over three different contexts in
\* which merging closed a gap: a dot of b's cloud was promoted into the clock
C27_Witness ==
    /\ kres # None /\ kres[1].law = "associativity"
    /\ CtxCompacted(ka) /\ CtxCompacted(kb) /\ CtxCompacted(kc)
    /\ ka # kb /\ kb # kc /\ ka # kc
    /\ \E d \in kb.dot_cloud :
          /\ d \notin kres[1].lhs.dot_cloud
          /\ MapGet(kres[1].lhs.clock, d[1], 0) >= d[2]
          /\ MapGet(ka.clock, d[1], 0) < d[2]
          /\ MapGet(kc.clock, d[1], 0) < d[2]

------------------------------------------------------------------------------
(* gcounter.rs (sypytkowski-convergent): ka and kb hold the GCounters of A  *)
(* and B, kc the increments made so far, kres the last merge                *)

GCounter_default == [values |-> EmptyMap, delta |-> None]

\* GCounter::value: the fold over values.values()
RECURSIVE GCounter_fold(_, _)
GCounter_fold(values, keys) ==
    IF keys = {} THEN 0
    ELSE LET k == CHOOSE x \in keys : \A y \in keys : x <= y
         IN  values[k] + GCounter_fold(values, keys \ {k})

GCounter_value(self) == GCounter_fold(self.values, DOMAIN self.values)

\* GCounter::increment: the entry and its mirror in the delta
GCounter_increment(self, replica) ==
    LET d == IF self.delta = None THEN GCounter_default ELSE self.delta[1]
    IN  [values |-> MapPut(self.values, replica, MapGet(self.values, replica, 0) + 1),
         delta  |-> Some([d EXCEPT !.values =
                            MapPut(@, replica, MapGet(d.values, replica, 0) + 1)])]

\* GCounter::merge_impl
RECURSIVE GCounter_merge_impl(_, _)
GCounter_merge_impl(a, b) ==
    [values |-> [r \in (DOMAIN a.values) \cup (DOMAIN b.values) |->
                    IF r \notin DOMAIN b.values THEN a.values[r]
                    ELSE IF r \notin DOMAIN a.values THEN b.values[r]
                    ELSE Max(a.values[r], b.values[r])],
     delta  |-> IF a.delta # None /\ b.delta # None
                THEN Some(GCounter_merge_impl(a.delta[1], b.delta[1]))
                ELSE IF a.delta # None THEN a.delta
                ELSE b.delta]

\* a merge that adds the entries of a shared replica
GCounter_merge_sum(self, other) ==
    [values |-> [r \in (DOMAIN self.values) \cup (DOMAIN other.values) |->
                    MapGet(self.values, r, 0) + MapGet(other.values, r, 0)],
     delta  |-> self.delta]

\* GCounter::merge
GCounter_merge(self, other) == GCounter_merge_impl(self, other)

GMaxIncs == 5

GReplicaIds == {1, 2}

InitGCounter ==
    /\ ka = GCounter_default /\ kb = GCounter_default
    /\ kc = [incs |-> 0, own |-> TRUE]
    /\ kres = None
    /\ NoDeltaReplicas /\ NoMaps /\ NoReplicators

\* A (replica 1) calls increment(r)
IncrementA(r) ==
    /\ kc.incs < GMaxIncs
    /\ ka' = GCounter_increment(ka, r)
    /\ kc' = [incs |-> kc.incs + 1, own |-> kc.own /\ r = 1]
    /\ UNCHANGED <<kb, kres, deltaVars, replVars, mapVars>>

\* B (replica 2) calls increment(r)
IncrementB(r) ==
    /\ kc.incs < GMaxIncs
    /\ kb' = GCounter_increment(kb, r)
    /\ kc' = [incs |-> kc.incs + 1, own |-> kc.own /\ r = 2]
    /\ UNCHANGED <<ka, kres, deltaVars, replVars, mapVars>>

\* A replaces its counter by A.merge(B)
MergeIntoA ==
    /\ kres' = Some([a |-> ka, b |-> kb, merged |-> GCounter_merge(ka, kb)])
    /\ ka' = GCounter_merge(ka, kb)
    /\ UNCHANGED <<kb, kc, deltaVars, replVars, mapVars>>

\* B replaces its counter by B.merge(A)
MergeIntoB ==
    /\ kres' = Some([a |-> kb, b |-> ka, merged |-> GCounter_merge(kb, ka)])
    /\ kb' = GCounter_merge(kb, ka)
    /\ UNCHANGED <<ka, kc, deltaVars, replVars, mapVars>>

NextGCounter ==
    \/ \E r \in GReplicaIds : IncrementA(r)
    \/ \E r \in GReplicaIds : IncrementB(r)
    \/ MergeIntoA
    \/ MergeIntoB

SpecGCounter == InitGCounter /\ [][NextGCounter]_vars

\* C28: GCounter merge is the element-wise maximum: a.merge(b).value() is the
\* sum over replica ids of max(a[r], b[r]), a missing entry read as 0; value()
\* never decreases under merge or increment; and while each replica has
\* incremented only its own entry, the merged value is the number of
\* increments made.
C28_MergeIsMax ==
    /\ [](/\ kres # None =>
              /\ \A r \in GReplicaIds :
                    MapGet(kres[1].merged.values, r, 0)
                    = Max(MapGet(kres[1].a.values, r, 0), MapGet(kres[1].b.values, r, 0))
              /\ DOMAIN kres[1].merged.values \subseteq GReplicaIds
              /\ GCounter_value(kres[1].merged)
                    = Max(MapGet(kres[1].a.values, 1, 0), MapGet(kres[1].b.values, 1, 0))
                      + Max(MapGet(kres[1].a.values, 2, 0), MapGet(kres[1].b.values, 2, 0))
          /\ kc.own => GCounter_value(GCounter_merge(ka, kb)) = kc.incs)
    /\ [][/\ GCounter_value(ka') >= GCounter_value(ka)
           /\ GCounter_value(kb') >= GCounter_value(kb)]_vars

\* C28 witness: A incremented once on replica 1, B twice on replica 2, and
\* A.merge(B).value() is 3
C28_Witness ==
    /\ kres # None /\ kc.own /\ kc.incs = 3
    /\ kres[1].a.values = [r \in {1} |-> 1]
    /\ kres[1].b.values = [r \in {2} |-> 2]
    /\ GCounter_value(kres[1].merged) = 3

------------------------------------------------------------------------------
(* VTime comparison (lib.rs, sypytkowski-commutative): ka and kb hold the   *)
(* two VTimes, kres the Ordering returned                                   *)

VMaxTime == 2

VReplicaIds == {0, 1, 2}

\* every VTime over some of the replica ids, entries of 0 included
VTimes == UNION {[ids -> 0 .. VMaxTime] : ids \in SUBSET VReplicaIds}

InitVTime ==
    /\ ka \in VTimes /\ kb \in VTimes /\ kc = EmptyMap
    /\ kres = None
    /\ NoDeltaReplicas /\ NoMaps /\ NoReplicators

\* a.partial_cmp(&b)
PartialCmp ==
    /\ kres = None
    /\ kres' = Some([law |-> "partial_cmp", ord |-> VTime_partial_cmp(ka, kb)])
    /\ UNCHANGED <<ka, kb, kc, deltaVars, replVars, mapVars>>

SpecVTime == InitVTime /\ [][PartialCmp]_vars

\* the vector-clock partial order on a and b, missing entries read as 0
VectorOrder(a, b) ==
    LET le(x, y) == \A r \in VReplicaIds : MapGet(x, r, 0) <= MapGet(y, r, 0)
    IN  IF le(a, b) /\ le(b, a) THEN "Equal"
        ELSE IF le(a, b) THEN "Less"
        ELSE IF le(b, a) THEN "Greater"
        ELSE "None"

\* every order in which the keys of a and b can be visited, each key once
KeyOrders(a, b) ==
    LET keys == (DOMAIN a) \cup (DOMAIN b)
    IN  {seq \in [1 .. Cardinality(keys) -> keys] :
            \A i, j \in DOMAIN seq : i # j => seq[i] # seq[j]}

\* C29: VTime comparison is the vector-clock partial order: with missing
\* entries read as 0, partial_cmp(a, b) is Equal iff a(r) = b(r) for every r,
\* Less iff a(r) <= b(r) for every r and a(r) < b(r) for some r, Greater in
\* the symmetric case and None (concurrent) otherwise, in whatever order the
\* keys are visited.
C29_VectorClockOrder ==
    (kres # None /\ kres[1].law = "partial_cmp")
    => /\ kres[1].ord = VectorOrder(ka, kb)
       /\ \A seq \in KeyOrders(ka, kb) :
             VTime_fold(ka, kb, seq, "Equal") = kres[1].ord
       /\ VTime_fold(ka, kb, Ascending(DOMAIN kb) \o Ascending(DOMAIN ka), "Equal")
             = kres[1].ord

\* C29 witness: a comparison of two concurrent VTimes with different key
\* sets, a ahead on its first key and behind on a later one
C29_Witness ==
    /\ kres # None /\ kres[1].law = "partial_cmp" /\ kres[1].ord = "None"
    /\ DOMAIN ka # DOMAIN kb
    /\ \E r, q \in VReplicaIds :
          /\ r < q
          /\ MapGet(ka, r, 0) > MapGet(kb, r, 0)
          /\ MapGet(ka, q, 0) < MapGet(kb, q, 0)

------------------------------------------------------------------------------
(* Three Counter Replicators at rest                                        *)

\* one more replicate call after the capped ones
LastReplicate(r, f) ==
    /\ driver[1] = "run" /\ link = None
    /\ r # f
    /\ driver[4] = RMaxPulls
    /\ driver' = [driver EXCEPT ![4] = RMaxPulls + 1]
    /\ link' = Some([replica |-> r, from |-> f, msg |-> replicate_message(Rep(r), f)])
    /\ UNCHANGED <<state, store, fault, kernelVars, deltaVars, mapVars>>

SpecRelay ==
    InitTrio /\ [][NextTrio \/ \E r \in TrioIds, f \in TrioIds : LastReplicate(r, f)]_vars

\* replicate_impl run to its end: the replica after the loop has returned
RECURSIVE replicate_impl(_, _, _)
replicate_impl(replica, from, msg) ==
    IF msg.type = "Replicate"
    THEN LET res == Replicator_send_Replicate(from, msg)
         IN  replicate_impl(replica, res[1], res[2])
    ELSE IF msg.type = "Replicated"
    THEN LET res == IF msg.events = << >>
                    THEN Replicator_send_Replicated_empty(replica, msg)
                    ELSE Replicator_send_Replicated(replica, msg)
         IN  replicate_impl(res[1], from, res[2])
    ELSE replica

\* replicate(replica, from)
replicate(r, f) == replicate_impl(Rep(r), Rep(f), replicate_message(Rep(r), f))

\* no call is in progress and a pull by any replica from any other replica
\* would deliver no event
AtRest ==
    /\ link = None
    /\ \A r \in DOMAIN state, f \in DOMAIN state :
          r # f => DOMAIN replicate(r, f).store.events = DOMAIN store[r].events

\* C30: no unseen event is lost with relayed events: for three Counter
\* Replicators and any interleaving of Commands and pull replications, once
\* pulls between all pairs of replicas deliver no new events, every replica
\* has effected every event created by a Command exactly once and all
\* queries are equal.
C30_NoEventLost ==
    AtRest
    => \A r \in DOMAIN state :
          /\ EffectedIds(r) = UNION {EffectedIds(q) : q \in DOMAIN state}
          /\ Cardinality(DOMAIN store[r].events) = Cardinality(EffectedIds(r))
          /\ Replicator_query(Rep(r)) = Replicator_query(Rep(0))

------------------------------------------------------------------------------
(* The steps of one Replicator                                              *)

\* the highest origin_seq among the events a step added to the store of r
AcceptedSeq(r) ==
    LET seqs == {store'[r].events[k].origin_seq : k \in NewKeys(r)}
    IN  CHOOSE n \in seqs : \A m \in seqs : m <= n

\* C31: observed holds origin sequence numbers: observed[p] is the highest
\* origin_seq among the events the replica has accepted from p. Stated over
\* steps: observed is empty at first; a step in which r accepts events from p
\* raises observed[p] to the highest origin_seq accepted if that is higher;
\* every other step, a rebuild by Replicator::new included, leaves observed
\* as it is.
C31_ObservedHoldsOriginSeq ==
    /\ \A r \in DOMAIN state : state[r].observed = EmptyMap
    /\ [][\A r \in DOMAIN state :
            IF /\ link # None /\ link[1].replica = r
               /\ link[1].msg.type = "Replicated" /\ NewKeys(r) # {}
            THEN state'[r].observed
                   = MapPut(state[r].observed, link[1].from,
                            Max(MapGet(state[r].observed, link[1].from, 0), AcceptedSeq(r)))
            ELSE state'[r].observed = state[r].observed]_vars

\* C32: Command step: a replica with seq = s and version = V that handles
\* Command(cmd) appends exactly one event to its store, with origin = own id,
\* origin_seq = local_seq = s + 1, version = V with the own entry raised by 1
\* and data = prepare(cmd) against the CRDT state before the command; it
\* applies effect of that event once, sets seq = s + 1, leaves observed
\* unchanged and returns Noop.
C32_CommandStep ==
    [][(link = None /\ link' = None /\ driver' = driver)
       => \A r \in DOMAIN state :
             state'[r] # state[r]
             => LET s == state[r].seq
                    e == store'[r].events[s + 1]
                IN  /\ NewKeys(r) = {s + 1}
                    /\ \A k \in DOMAIN store[r].events :
                          store'[r].events[k] = store[r].events[k]
                    /\ e.origin = r /\ e.origin_seq = s + 1 /\ e.local_seq = s + 1
                    /\ e.version = MapPut(state[r].version, r,
                                          MapGet(state[r].version, r, 0) + 1)
                    /\ \E cmd \in PairCmds :
                          /\ e.data = Crdt_prepare(state[r].crdt, cmd)
                          /\ Replicator_send_Command(Rep(r), cmd)[2] = Noop
                    /\ state'[r].crdt = Crdt_effect(state[r].crdt, e)
                    /\ state'[r].seq = s + 1
                    /\ state'[r].observed = state[r].observed]_vars

\* C32 witness: a replica has handled a Command after it had accepted an
\* event of its peer, so that s > 0 and V holds a foreign entry
C32_Witness ==
    \E r \in DOMAIN store : \E k \in DOMAIN store[r].events :
        /\ k > 1
        /\ store[r].events[k].origin = r
        /\ store[r].events[k - 1].origin # r
        /\ state[r].seq = k

\* C33: replay batch: the Replicated reply to Replicate{seq_nr, max_count,
\* filter} holds, in ascending local_seq order, only stored events with
\* local_seq >= seq_nr whose version is greater than or concurrent with
\* filter, at most max_count of them; to_seq_nr is the largest local_seq
\* examined (0 when none was), hence >= the local_seq of every returned event
\* and >= seq_nr when the batch is not empty; handling Replicate changes
\* neither the ReplicationState nor the store.
C33_ReplayBatch ==
    [][(link # None /\ link[1].msg.type = "Replicate")
       => LET req      == link[1].msg
              rep      == link'[1].msg
              log      == store[link[1].from].events
              from_seq == {k \in DOMAIN log : k >= req.seq_nr}
              examined == {k \in from_seq : k <= rep.to_seq_nr}
              unseen(e) == VTime_partial_cmp(e.version, req.filter) \in {"Greater", "None"}
          IN  /\ rep.type = "Replicated" /\ rep.from = link[1].from
              /\ \A i \in DOMAIN rep.events :
                    /\ rep.events[i].local_seq \in from_seq
                    /\ log[rep.events[i].local_seq] = rep.events[i]
                    /\ unseen(rep.events[i])
                    /\ rep.events[i].local_seq <= rep.to_seq_nr
                    /\ i > 1 => rep.events[i - 1].local_seq < rep.events[i].local_seq
              /\ Len(rep.events) <= req.max_count
              /\ IF from_seq = {} THEN rep.to_seq_nr = 0
                 ELSE /\ rep.to_seq_nr \in from_seq
                      /\ Cardinality(examined) <= req.max_count
                      /\ Cardinality(examined) = req.max_count \/ examined = from_seq
                      /\ \A k \in examined :
                            unseen(log[k]) => \E i \in DOMAIN rep.events : rep.events[i] = log[k]
              /\ rep.events # << >> => rep.to_seq_nr >= req.seq_nr
              /\ state' = state /\ store' = store]_vars

\* C33 witness: a reply that returns an event and has examined a later one
\* which the filter kept back
C33_Witness ==
    /\ link # None /\ link[1].msg.type = "Replicated"
    /\ link[1].msg.events # << >>
    /\ link[1].msg.to_seq_nr > link[1].msg.events[Len(link[1].msg.events)].local_seq

\* the replicate_impl loop runs on once it has been entered: each send is
\* awaited and the next one follows. Weak fairness of the three steps of the
\* loop; for FromSend and ReplicatedEvents it is written out, with the guard
\* of the step in the place of ENABLED (the step is enabled exactly when its
\* guard holds: send returns for every message)
SpecExchange ==
    /\ SpecTrio
    /\ WF_vars(ReplicatedEmpty)
    /\ \/ []<>(~(link # None /\ link[1].msg.type = "Replicate"))
       \/ []<><<FromSend>>_vars
    /\ \/ []<>(~(link # None /\ link[1].msg.type = "Replicated"
                    /\ link[1].msg.events # << >>))
       \/ []<><<ReplicatedEvents>>_vars

\* C34: replication terminates: replicate(replica, from) and
\* connect(replica, to), during which no command is issued, reach Noop after
\* finitely many rounds: every follow-up Replicate carries a seq_nr strictly
\* larger than the one before, and a batch without events ends the loop.
C34_ExchangeTerminates ==
    /\ (link # None) ~> (link = None)
    /\ [][(link # None /\ link[1].msg.type = "Replicated")
          => IF link[1].msg.events = << >> THEN link' = None
             ELSE /\ link'[1].msg.type = "Replicate"
                  /\ link'[1].msg.seq_nr = link[1].msg.to_seq_nr + 1
                  /\ \A e \in {link[1].msg.events[i] : i \in DOMAIN link[1].msg.events} :
                        link'[1].msg.seq_nr > e.local_seq]_vars

\* C34 witness: an exchange in its second round: the follow-up Replicate of
\* a batch with events is on its way
C34_Witness ==
    /\ link # None /\ link[1].msg.type = "Replicate"
    /\ link[1].msg.seq_nr > MapGet(state[link[1].replica].observed, link[1].from, 0) + 1
    /\ state[link[1].replica].seq > 0

\* effect applied to each event of a sequence once, in its order
RECURSIVE EffectAll(_, _)
EffectAll(crdt, events) ==
    IF events = << >> THEN crdt
    ELSE EffectAll(Crdt_effect(crdt, Head(events)), Tail(events))

\* C35: recovery reconstructs the state: Replicator::new over the store of a
\* stopped replica, all of whose sends had completed, yields the seq, the
\* version and the crdt.query() the replica held when it stopped; the
\* persisted events with local_seq above the snapshot's seq (all events when
\* no snapshot was saved) are applied once each, in ascending local_seq order.
C35_RecoveryReconstructs ==
    [][(link = None /\ link' = None /\ store' = store)
       => \A r \in DOMAIN state :
             LET base == IF store[r].state = None
                         THEN [seq |-> 0, crdt |-> LWWRegister_new(r)]
                         ELSE store[r].state[1]
             IN  /\ state'[r].seq = state[r].seq
                 /\ state'[r].version = state[r].version
                 /\ Replicator_query(Rep(r))
                      = Crdt_query(state'[r].crdt)
                 /\ state'[r] # state[r]
                      => state'[r].crdt
                         = EffectAll(base.crdt,
                                     InMemoryDb_load_events(store[r], base.seq + 1))]_vars

\* C35 witness: a replica that wrote, saved a snapshot and accepted events
\* after it stands as Replicator::new rebuilt it, with another observed map
\* than the snapshot and the later events alone would give a running replica
C35_Witness ==
    /\ driver[2] = 1 /\ link = None
    /\ \E r \in DOMAIN state :
          /\ store[r].state # None
          /\ store[r].state[1].seq >= 1
          /\ state[r].seq > store[r].state[1].seq
          /\ state[r] = Replicator_new_with(r, LWWRegister_new(r), store[r]).state
          /\ state[r].observed # store[r].state[1].observed
          /\ state[r].crdt.value # store[r].state[1].crdt.value

------------------------------------------------------------------------------
(* Dots across the delta-state replicas                                     *)

\* the replica ids in use, and the main kernel of the instance that uses id i
Owners == (DOMAIN sets) \cup (DOMAIN regs) \cup (DOMAIN maps)

MainKernel(i) ==
    IF i \in DOMAIN sets THEN sets[i].kernel
    ELSE IF i \in DOMAIN regs THEN regs[i].core
    ELSE maps[i].keys.kernel

\* every kernel there is: main kernels, pending deltas, deltas handed out
AllKernels ==
    LET opts == {sets[i].delta : i \in DOMAIN sets} \cup {regs[i].delta : i \in DOMAIN regs}
                \cup {maps[i].keys.delta : i \in DOMAIN maps}
                \cup {outbox[i] : i \in DOMAIN outbox} \cup {regbox[i] : i \in DOMAIN regbox}
                \cup {mapbox[i] : i \in DOMAIN mapbox}
    IN  {MainKernel(i) : i \in Owners} \cup UNION {{o[n] : n \in DOMAIN o} : o \in opts}

\* the dot is known to some kernel, as an entry or in its context
DotKnown(dot) ==
    \E k \in AllKernels : dot \in DOMAIN k.entries \/ DotCtx_contains(k.ctx, dot)

\* C36: dots are unique: while each replica id is used by a single AWORSet,
\* AWORMap or MVReg instance, next_dot never returns a dot that the context
\* it is called on, or any other kernel, already contains; the dots issued
\* for one replica have the sequence numbers 1, 2, ... in this order; and no
\* two kernels anywhere (main or delta, on any replica) hold the same dot
\* mapped to different values.
C36_DotsUnique ==
    /\ \A i \in Owners : Clock_of(MainKernel(i), i) = 0 /\ ~DotKnown(<<i, 1>>)
    /\ [](\A k1 \in AllKernels, k2 \in AllKernels :
            \A d \in DOMAIN k1.entries :
                d \in DOMAIN k2.entries => k1.entries[d] = k2.entries[d])
    /\ [][\A i \in Owners :
            LET c == Clock_of(MainKernel(i), i)
            IN  \/ Clock_of(MainKernel(i), i)' = c
                \/ /\ Clock_of(MainKernel(i), i)' = c + 1
                   /\ ~DotKnown(<<i, c + 1>>)
                   /\ \A n \in 1 .. c : DotCtx_contains(MainKernel(i).ctx, <<i, n>>)]_vars

\* C36 witness: a replica has issued the dots 1 and 2, a peer that issued a
\* dot itself holds the second as an entry, and a delta handed out holds a
\* dot too
C36_Witness ==
    \E i \in Owners, j \in Owners :
        /\ i # j
        /\ Clock_of(MainKernel(i), i) = 2
        /\ <<i, 2>> \in DOMAIN MainKernel(j).entries
        /\ Clock_of(MainKernel(j), j) >= 1
        /\ \E k \in AllKernels : k # MainKernel(i) /\ k # MainKernel(j)
                                   /\ <<i, 1>> \in DOMAIN k.entries

------------------------------------------------------------------------------
(* GCounter deltas shipped from A (replica 1) to B: ka holds A's counter,   *)
(* kb holds B's, kc the deltas shipped and not yet merged                   *)

\* GCounter::split_owned: returns <<full state, delta>>
GCounter_split_owned(self) == << [values |-> self.values, delta |-> None], self.delta >>

\* GCounter::merge_deltas
GCounter_merge_deltas(self, delta) == GCounter_merge_impl(self, delta)

InitGShip ==
    /\ ka = GCounter_default /\ kb = GCounter_default
    /\ kc = << >>
    /\ kres = None
    /\ NoDeltaReplicas /\ NoMaps /\ NoReplicators

\* A increments its own entry
ShipIncrement ==
    /\ MapGet(ka.values, 1, 0) < GMaxIncs
    /\ ka' = GCounter_increment(ka, 1)
    /\ UNCHANGED <<kb, kc, kres, deltaVars, replVars, mapVars>>

\* A calls split_owned, goes on with the full-state counter and ships the
\* delta
ShipSplitOwned ==
    /\ ka.delta # None
    /\ ka' = GCounter_split_owned(ka)[1]
    /\ kc' = Append(kc, GCounter_split_owned(ka)[2][1])
    /\ UNCHANGED <<kb, kres, deltaVars, replVars, mapVars>>

\* B merges the oldest shipped delta
ShipMergeDeltas ==
    /\ kc # << >>
    /\ kb' = GCounter_merge_deltas(kb, Head(kc))
    /\ kc' = Tail(kc)
    /\ UNCHANGED <<ka, kres, deltaVars, replVars, mapVars>>

SpecGShip == InitGShip /\ [][ShipIncrement \/ ShipSplitOwned \/ ShipMergeDeltas]_vars

\* C37: GCounter delta shipping: when A alternates increments with
\* split_owned and ships every delta, and B, empty at first, merges each
\* shipped delta with merge_deltas, then once all deltas have been merged
\* B.value() = A.value() and B's entry for A equals A's own entry.
C37_GCounterDeltaShipping ==
    (kc = << >> /\ ka.delta = None)
    => /\ GCounter_value(kb) = GCounter_value(ka)
       /\ MapGet(kb.values, 1, 0) = MapGet(ka.values, 1, 0)

------------------------------------------------------------------------------
(* pncounter.rs: ka holds the PNCounter, kb the increments and decrements   *)
(* made since the last split, kres the last split                           *)

\* GCounter::split: returns <<full state, delta>>
GCounter_split(self) == << [values |-> self.values, delta |-> None], self.delta >>

PNCounter_default == [inc |-> GCounter_default, dec |-> GCounter_default]

\* PNCounter::value
PNCounter_value(self) == GCounter_value(self.inc) - GCounter_value(self.dec)

\* PNCounter::increment
PNCounter_increment(self, replica) == [self EXCEPT !.inc = GCounter_increment(@, replica)]

\* PNCounter::decrement
PNCounter_decrement(self, replica) == [self EXCEPT !.dec = GCounter_increment(@, replica)]

\* PNCounter::split: returns <<full state, deltas>>; both halves are split
\* off self.inc
PNCounter_split(self) ==
    LET i == GCounter_split(self.inc)
        d == GCounter_split(self.inc)
    IN  << [inc |-> i[1], dec |-> d[1]],
           IF i[2] = None /\ d[2] = None THEN None
           ELSE Some([inc |-> IF i[2] = None THEN GCounter_default ELSE i[2][1],
                      dec |-> IF d[2] = None THEN GCounter_default ELSE d[2][1]]) >>

\* cap on the increments and decrements of one run
PMaxOps == 4

InitPN ==
    /\ ka = PNCounter_default
    /\ kb = [inc |-> EmptyMap, dec |-> EmptyMap]
    /\ kc = 0
    /\ kres = None
    /\ NoDeltaReplicas /\ NoMaps /\ NoReplicators

PNIncrement(r) ==
    /\ kc < PMaxOps
    /\ kc' = kc + 1
    /\ ka' = PNCounter_increment(ka, r)
    /\ kb' = [kb EXCEPT !.inc = MapPut(@, r, MapGet(kb.inc, r, 0) + 1)]
    /\ UNCHANGED <<kres, deltaVars, replVars, mapVars>>

PNDecrement(r) ==
    /\ kc < PMaxOps
    /\ kc' = kc + 1
    /\ ka' = PNCounter_decrement(ka, r)
    /\ kb' = [kb EXCEPT !.dec = MapPut(@, r, MapGet(kb.dec, r, 0) + 1)]
    /\ UNCHANGED <<kres, deltaVars, replVars, mapVars>>

\* c.split(): the program goes on with the full-state counter returned
PNSplit ==
    /\ kres' = Some([before |-> ka, since |-> kb,
                     full |-> PNCounter_split(ka)[1], deltas |-> PNCounter_split(ka)[2]])
    /\ ka' = PNCounter_split(ka)[1]
    /\ kb' = [inc |-> EmptyMap, dec |-> EmptyMap]
    /\ UNCHANGED <<kc, deltaVars, replVars, mapVars>>

SpecPN ==
    InitPN /\ [][(\E r \in GReplicaIds : PNIncrement(r))
                 \/ (\E r \in GReplicaIds : PNDecrement(r)) \/ PNSplit]_vars

\* C38: PNCounter.split preserves the counter: for a PNCounter c reached by
\* increments and decrements, c.split() returns a full-state counter with
\* the inc and dec entries of c, hence the same value(), and no pending
\* delta, and a delta whose inc component is the increments since the last
\* split and whose dec component is the decrements since the last split.
C38_SplitPreserves ==
    kres # None
    => /\ kres[1].full.inc.values = kres[1].before.inc.values
       /\ kres[1].full.dec.values = kres[1].before.dec.values
       /\ PNCounter_value(kres[1].full) = PNCounter_value(kres[1].before)
       /\ kres[1].full.inc.delta = None /\ kres[1].full.dec.delta = None
       /\ IF kres[1].deltas = None
          THEN kres[1].since = [inc |-> EmptyMap, dec |-> EmptyMap]
          ELSE /\ kres[1].deltas[1].inc.values = kres[1].since.inc
               /\ kres[1].deltas[1].dec.values = kres[1].since.dec

------------------------------------------------------------------------------
(* Local commands on the sequence CRDTs                                     *)

\* seq without its element at index i (counting from 1)
DropAt(seq, i) == SubSeq(seq, 1, i - 1) \o SubSeq(seq, i + 1, Len(seq))

\* C39: LSeq local insert lands at the requested index: on a reachable LSeq
\* replica with n elements and 0 <= i <= n, after the replica handles the
\* local command Insert(i, v), query()[i] = v and the order of the elements
\* present before is unchanged; the generated pointer sorts strictly between
\* the pointers of the former elements i-1 and i under VPtr::compare,
\* consecutive inserts by one replica included.
C39_InsertLandsAtIndex ==
    [][\A r \in DOMAIN state :
          \A i \in 0 .. Len(state[r].crdt.values), v \in {"nice", "nah"} :
              (/\ link = None /\ link' = None /\ driver' = driver
               /\ state'[r] = Replicator_send_Command(
                                  Rep(r), [type |-> "Insert", i |-> i, val |-> v])[1].state)
              => LET old == state[r].crdt.values
                     ptr == LSeq_prepare(state[r].crdt,
                                         [type |-> "Insert", i |-> i, val |-> v]).ptr
                 IN  /\ Len(LSeq_query(state'[r].crdt)) = Len(old) + 1
                     /\ LSeq_query(state'[r].crdt)[i + 1] = v
                     /\ DropAt(LSeq_query(state'[r].crdt), i + 1) = LSeq_query(state[r].crdt)
                     /\ i > 0 => VPtr_compare(old[i][1], ptr) = "Less"
                     /\ i < Len(old) => VPtr_compare(ptr, old[i + 1][1]) = "Less"]_vars

\* C40: RGA RemoveAt addresses visible elements: on a reachable Rga replica
\* whose query() has n elements and 0 <= i < n, tombstones before the i-th
\* visible element included, after the replica handles the local command
\* RemoveAt(i), query() is the previous query() without the element at index
\* i; the vertex is kept as a tombstone and the vertex list never shrinks.
C40_RemoveAtVisible ==
    [][\A r \in DOMAIN state :
          /\ Len(state'[r].crdt.values) >= Len(state[r].crdt.values)
          /\ \A i \in 0 .. Len(Rga_query(state[r].crdt)) - 1 :
                (/\ link = None /\ link' = None /\ driver' = driver
                 /\ state'[r] = Replicator_send_Command(
                                    Rep(r), [type |-> "RemoveAt", i |-> i])[1].state)
                => /\ Rga_query(state'[r].crdt) = DropAt(Rga_query(state[r].crdt), i + 1)
                   /\ Len(state'[r].crdt.values) = Len(state[r].crdt.values)
                   /\ \A k \in DOMAIN state[r].crdt.values :
                         state'[r].crdt.values[k][1] = state[r].crdt.values[k][1]]_vars

====
